---------------------------- MODULE Spec2Model ----------------------------
(***************************************************************************)
(* Model of the DPI simulator (tools/dpi-simulator/dpi_simulator.py):      *)
(* the packet path (DPISimulator.run / process_packet / _block_packet),    *)
(* the control plane (APIHandler.do_GET / do_POST) that runs on a second   *)
(* thread, the protocol extractors and the domain matcher.                 *)
(*                                                                         *)
(* Byte strings and text are sequences of integers 0..255 (ASCII codes);   *)
(* Python's 0-based payload[k] is p[k + 1] here.                           *)
(***************************************************************************)
EXTENDS Integers, Sequences, FiniteSets, TLC

\* Python's None where a byte string or text is expected: no byte is -1
None == <<-1>>

\* the truth value of an Optional[str]: neither None nor ''
Truthy(x) == x # None /\ x # << >>

(***************************************************************************)
(* Bytes and text                                                          *)
(***************************************************************************)
\* payload[off] for a 0-based offset
ByteAt(p, off) == p[off + 1]

\* struct.unpack('!H', payload[off:off+2])[0]
U16(p, off) == p[off + 1] * 256 + p[off + 2]

\* struct.unpack('!I', payload[off:off+4])[0], kept as its two 16-bit halves,
\* most significant first (the value does not fit the checker's integers)
U32(p, off) == <<U16(p, off), U16(p, off + 2)>>

\* payload[a:b] for 0 <= a, with Python's clamping of b
Slice(p, a, b) ==
    LET e == IF b > Len(p) THEN Len(p) ELSE b
    IN  IF a >= e THEN << >> ELSE SubSeq(p, a + 1, e)

\* bytes.decode('ascii', errors='ignore'): bytes >= 0x80 are left out
IsAscii(b) == b < 128
DecodeAsciiIgnore(p) == SelectSeq(p, IsAscii)

\* str.lower() on ASCII text
LowerChar(c) == IF c >= 65 /\ c <= 90 THEN c + 32 ELSE c
Lower(s) == [i \in 1..Len(s) |-> LowerChar(s[i])]

\* str.startswith / str.endswith
StartsWith(s, t) == Len(t) <= Len(s) /\ SubSeq(s, 1, Len(t)) = t
EndsWith(s, t) ==
    Len(t) <= Len(s) /\ SubSeq(s, Len(s) - Len(t) + 1, Len(s)) = t

\* the characters str.strip() removes and the regex class \s matches (ASCII)
Whitespace == {9, 10, 11, 12, 13, 28, 29, 30, 31, 32}

RECURSIVE LStrip(_)
LStrip(s) ==
    IF s # << >> /\ Head(s) \in Whitespace THEN LStrip(Tail(s)) ELSE s

RECURSIVE RStrip(_)
RStrip(s) ==
    IF s # << >> /\ s[Len(s)] \in Whitespace
    THEN RStrip(SubSeq(s, 1, Len(s) - 1))
    ELSE s

Strip(s) == RStrip(LStrip(s))

(***************************************************************************)
(* Text literals                                                           *)
(***************************************************************************)
DOT == <<46>>
COLON == 58
CR == 13
LF == 10
HASH == 35
\* 'unknown'
UNKNOWN == <<117, 110, 107, 110, 111, 119, 110>>
\* 'host:'
HOST_COLON == <<104, 111, 115, 116, 58>>
\* ['GET ', 'POST ', 'HEAD ', 'PUT ', 'DELETE ', 'CONNECT ']
HTTP_METHODS ==
    { <<71, 69, 84, 32>>, <<80, 79, 83, 84, 32>>, <<72, 69, 65, 68, 32>>,
      <<80, 85, 84, 32>>, <<68, 69, 76, 69, 84, 69, 32>>,
      <<67, 79, 78, 78, 69, 67, 84, 32>> }

(***************************************************************************)
(* DPISimulator._extract_sni                                               *)
(***************************************************************************)
\* an entry parser that takes the server name list for the name
SniEntry_list_as_name(p, o) ==
    IF o + 2 > Len(p) THEN None
    ELSE LET sni_list_len == U16(p, o)
         IN  IF o + 2 + sni_list_len <= Len(p)
             THEN DecodeAsciiIgnore(Slice(p, o + 2, o + 2 + sni_list_len))
             ELSE None

\* the body of `if ext_type == 0x0000 and offset + ext_len <= len(payload)`;
\* every `break` leaves the loop and falls to the final `return None`
SniEntry(p, o) ==
    IF o + 2 > Len(p) THEN None
    ELSE IF o + 3 > Len(p) THEN None
    ELSE IF ByteAt(p, o + 2) # 0 THEN None
    ELSE IF o + 5 > Len(p) THEN None
    ELSE LET sni_len == U16(p, o + 3)
         IN  IF o + 5 + sni_len <= Len(p)
             THEN DecodeAsciiIgnore(Slice(p, o + 5, o + 5 + sni_len))
             ELSE None

\* the `while offset + 4 <= extensions_end and offset + 4 <= len(payload)` loop
RECURSIVE ExtWalk(_, _, _)
ExtWalk(p, offset, extensions_end) ==
    IF offset + 4 <= extensions_end /\ offset + 4 <= Len(p)
    THEN LET ext_type == U16(p, offset)
             ext_len == U16(p, offset + 2)
         IN  IF ext_type = 0 /\ offset + 4 + ext_len <= Len(p)
             THEN SniEntry(p, offset + 4)
             ELSE ExtWalk(p, offset + 4 + ext_len, extensions_end)
    ELSE None

AfterCompression(p, offset) ==
    IF offset + 2 > Len(p) THEN None
    ELSE LET extensions_len == U16(p, offset)
         IN  ExtWalk(p, offset + 2, offset + 2 + extensions_len)

AfterCiphers(p, offset) ==
    IF offset + 1 > Len(p) THEN None
    ELSE AfterCompression(p, offset + 1 + ByteAt(p, offset))

AfterSessionId(p, offset) ==
    IF offset + 2 > Len(p) THEN None
    ELSE AfterCiphers(p, offset + 2 + U16(p, offset))

\* an extractor that does not look at the record's content type
extract_sni_any_record(p) ==
    IF Len(p) < 43 THEN None
    ELSE IF ByteAt(p, 5) # 1 THEN None
    ELSE IF 43 >= Len(p) THEN None
    ELSE AfterSessionId(p, 43 + 1 + ByteAt(p, 43))

extract_sni(p) ==
    IF Len(p) < 43 THEN None
    ELSE IF ByteAt(p, 0) # 22 THEN None
    ELSE IF ByteAt(p, 5) # 1 THEN None
    ELSE IF 43 >= Len(p) THEN None
    ELSE AfterSessionId(p, 43 + 1 + ByteAt(p, 43))

(***************************************************************************)
(* DPISimulator._extract_http_host                                         *)
(***************************************************************************)
\* re.search(r'Host:\s*([^\r\n]+)', data, re.IGNORECASE) tried at 1-based
\* position i: group 1, or None when the pattern does not match at i
HostMatchAt(d, i) ==
    IF i + 4 > Len(d) \/ Lower(SubSeq(d, i, i + 4)) # HOST_COLON THEN None
    ELSE LET j == i + 5
             \* first position at or after j that is not whitespace
             nonWs == {k \in j..Len(d) : d[k] \notin Whitespace}
             \* greedy \s* gives characters back until ([^\r\n]+) can start
             back == {k \in j..Len(d) :
                        /\ d[k] \notin {CR, LF}
                        /\ \A m \in j..(k - 1) : d[m] \in Whitespace}
         IN  IF back = {} THEN None
             ELSE LET k == IF nonWs # {}
                           THEN CHOOSE x \in nonWs : \A y \in nonWs : x <= y
                           ELSE CHOOSE x \in back : \A y \in back : y <= x
                      stops == {m \in k..Len(d) : d[m] \in {CR, LF}}
                      e == IF stops = {} THEN Len(d)
                           ELSE (CHOOSE x \in stops : \A y \in stops : x <= y) - 1
                  IN  SubSeq(d, k, e)

\* host.split(':')[0]
BeforeColon(h) ==
    LET cs == {i \in 1..Len(h) : h[i] = COLON}
    IN  IF cs = {} THEN h
        ELSE SubSeq(h, 1, (CHOOSE x \in cs : \A y \in cs : x <= y) - 1)

extract_http_host(p) ==
    LET data == DecodeAsciiIgnore(p)
    IN  IF \A m \in HTTP_METHODS : ~StartsWith(data, m) THEN None
        ELSE LET hits == {i \in 1..Len(data) : HostMatchAt(data, i) # None}
             IN  IF hits = {} THEN None
                 ELSE LET i == CHOOSE x \in hits : \A y \in hits : x <= y
                      IN  BeforeColon(Strip(HostMatchAt(data, i)))

(***************************************************************************)
(* DPISimulator._is_quic_initial                                           *)
(***************************************************************************)
\* a detector that accepts every long-header packet type
is_quic_initial_any_type(p) ==
    IF Len(p) < 6 THEN FALSE
    ELSE IF (ByteAt(p, 0) \div 128) % 2 = 0 THEN FALSE
    ELSE IF (ByteAt(p, 0) \div 64) % 2 = 0 THEN FALSE
    ELSE IF U32(p, 1) = <<0, 0>> THEN FALSE
    ELSE TRUE

is_quic_initial(p) ==
    IF Len(p) < 6 THEN FALSE
    ELSE IF (ByteAt(p, 0) \div 128) % 2 = 0 THEN FALSE
    ELSE IF (ByteAt(p, 0) \div 64) % 2 = 0 THEN FALSE
    ELSE IF (ByteAt(p, 0) \div 16) % 4 # 0 THEN FALSE
    ELSE IF U32(p, 1) = <<0, 0>> THEN FALSE
    ELSE TRUE

(***************************************************************************)
(* DPISimulator._is_domain_blocked and _load_domains                       *)
(***************************************************************************)
\* a suffix test that leaves out the dot in front of the blocklist entry
is_domain_blocked_no_dot(domains, domain) ==
    LET d == Lower(domain)
    IN  IF d \in domains THEN TRUE
        ELSE \E blocked \in domains : EndsWith(d, blocked)

is_domain_blocked(domains, domain) ==
    LET d == Lower(domain)
    IN  IF d \in domains THEN TRUE
        ELSE \E blocked \in domains : EndsWith(d, DOT \o blocked)

\* the same with the set visited in the order given: the membership test of
\* L282, then the loop of L285-L287 with its early return
RECURSIVE suffix_loop(_, _)
suffix_loop(order, d) ==
    IF order = << >> THEN FALSE
    ELSE IF EndsWith(d, DOT \o Head(order)) THEN TRUE
    ELSE suffix_loop(Tail(order), d)

is_domain_blocked_visiting(order, domain) ==
    LET d == Lower(domain)
    IN  IF \E i \in 1..Len(order) : order[i] = d THEN TRUE
        ELSE suffix_loop(order, d)

\* a loader that keeps the entries as they are written in the file
load_domains_as_written(lines) ==
    { Strip(lines[i]) :
        i \in {j \in 1..Len(lines) :
                 LET l == Strip(lines[j])
                 IN  l # << >> /\ l[1] # HASH} }

\* the lines of the domains file that are kept, lower-cased
load_domains(lines) ==
    { Lower(Strip(lines[i])) :
        i \in {k \in 1..Len(lines) :
                 Strip(lines[k]) # << >> /\ Head(Strip(lines[k])) # HASH} }

(***************************************************************************)
(* Sample traffic.  A packet is what scapy's IP(...) yields: the protocol  *)
(* layer, addresses, ports, TCP seq/ack and the Raw payload (None when the *)
(* packet has no Raw layer); malformed marks bytes IP(...) cannot parse.   *)
(***************************************************************************)
Zeros(n) == [i \in 1..n |-> 0]
Be16(n) == <<n \div 256, n % 256>>

\* a TLS record holding a ClientHello whose server_name extension names host
ClientHello(host) ==
    LET name == <<0>> \o Be16(Len(host)) \o host
        ext == <<0, 0>> \o Be16(Len(name) + 2) \o Be16(Len(name)) \o name
        body == <<3, 3>> \o Zeros(32) \o <<0>> \o <<0, 2, 19, 1>> \o <<1, 0>>
                \o Be16(Len(ext)) \o ext
        hs == <<1, 0>> \o Be16(Len(body)) \o body
    IN  <<22, 3, 1>> \o Be16(Len(hs)) \o hs

\* 'GET / HTTP/1.1\r\nHost: ' + host + '\r\n\r\n'
HttpGet(host) ==
    <<71, 69, 84, 32, 47, 32, 72, 84, 84, 80, 47, 49, 46, 49, 13, 10,
      72, 111, 115, 116, 58, 32>> \o host \o <<13, 10, 13, 10>>

\* a QUIC long-header Initial packet, version 1
QuicInitial == <<192, 0, 0, 0, 1, 8, 1, 2, 3, 4>>

\* 'ex.com', 'Sub.Ex.com', 'evilex.com', 'ex.com:8080'
EX_COM == <<101, 120, 46, 99, 111, 109>>
SUB_EX_COM == <<83, 117, 98, 46, 69, 120, 46, 99, 111, 109>>
EVILEX_COM == <<101, 118, 105, 108>> \o EX_COM
EX_COM_PORT == EX_COM \o <<58, 56, 48, 56, 48>>

\* the domains file: 'Ex.COM\n', '# comment\n', '\n'
DomainsFile == << <<69, 120, 46, 67, 79, 77, 10>>, <<35, 32, 120, 10>>, <<10>> >>

\* TCP seq and ack are 32-bit fields, kept like U32 as two 16-bit halves
Packet(proto, dport, raw) ==
    [proto |-> proto, src |-> "client", dst |-> "server", sport |-> 40000,
     dport |-> dport, seq |-> <<0, 1000>>, ack |-> <<0, 2000>>, raw |-> raw,
     malformed |-> FALSE]

SniPacket == Packet("TCP", 443, ClientHello(EX_COM))
SubSniPacket == Packet("TCP", 443, ClientHello(SUB_EX_COM))
HttpPacket == Packet("TCP", 80, HttpGet(EX_COM_PORT))
QuicPacket == Packet("UDP", 443, QuicInitial)
OtherSniPacket == Packet("TCP", 443, ClientHello(EVILEX_COM))
AltPortPacket == Packet("TCP", 8443, ClientHello(EX_COM))
BarePacket == Packet("TCP", 443, None)
DnsPacket == Packet("UDP", 53, QuicInitial)
IcmpPacket == Packet("ICMP", 0, None)
MalformedPacket == [IcmpPacket EXCEPT !.malformed = TRUE]

Packets ==
    {SniPacket, SubSniPacket, HttpPacket, QuicPacket, OtherSniPacket,
     AltPortPacket, BarePacket, DnsPacket, IcmpPacket, MalformedPacket}

\* a ClientHello with a session id, extensions before the server_name
\* extension and extensions after it
ClientHelloWith(host, sid, pre, post) ==
    LET name == <<0>> \o Be16(Len(host)) \o host
        sni == <<0, 0>> \o Be16(Len(name) + 2) \o Be16(Len(name)) \o name
        exts == pre \o sni \o post
        body == <<3, 3>> \o Zeros(32) \o <<Len(sid)>> \o sid
                \o <<0, 2, 19, 1>> \o <<1, 0>> \o Be16(Len(exts)) \o exts
        hs == <<1, 0>> \o Be16(Len(body)) \o body
    IN  <<22, 3, 1>> \o Be16(Len(hs)) \o hs

\* a session id, a supported_versions extension, a renegotiation_info
\* extension
SESSION_ID == <<7, 7, 7, 7>>
SUPPORTED_VERSIONS == <<0, 43, 0, 3, 2, 3, 4>>
RENEGOTIATION_INFO == <<255, 1, 0, 1, 0>>

\* well-formed ClientHello payloads, each with the hostname it carries and
\* the position of that hostname's last byte
HelloSample(host, sid, pre, post) ==
    LET p == ClientHelloWith(host, sid, pre, post)
    IN  [payload |-> p, host |-> host, name_end |-> Len(p) - Len(post)]

HelloSamples ==
    {HelloSample(h, << >>, << >>, << >>) : h \in {EX_COM, SUB_EX_COM}}
    \cup {HelloSample(EX_COM, SESSION_ID, SUPPORTED_VERSIONS, << >>),
          HelloSample(SUB_EX_COM, << >>, << >>, RENEGOTIATION_INFO),
          HelloSample(EVILEX_COM, SESSION_ID, SUPPORTED_VERSIONS,
                      RENEGOTIATION_INFO)}

HelloPackets == {Packet("TCP", 443, h.payload) : h \in HelloSamples}

\* 'GET / HTTP/1.1\r\n\r\n': a request with no Host header
HttpNoHost ==
    <<71, 69, 84, 32, 47, 32, 72, 84, 84, 80, 47, 49, 46, 49, 13, 10, 13, 10>>

\* a blocked name on the other protocol's port, a ClientHello cut before its
\* extensions, a request without a Host header, a UDP/443 payload that is
\* not a QUIC Initial
HostOn443Packet == Packet("TCP", 443, HttpGet(EX_COM))
SniOn80Packet == Packet("TCP", 80, ClientHello(EX_COM))
NoSniPacket == Packet("TCP", 443, SubSeq(ClientHello(EX_COM), 1, 50))
NoHostPacket == Packet("TCP", 80, HttpNoHost)
NotQuicPacket == Packet("UDP", 443, Zeros(8))

\* 'GET / HTTP/1.1\r\nX-Host: ex.com\r\n\r\n': a request with no Host
\* header and another header whose name ends in 'Host'
HttpXHost ==
    <<71, 69, 84, 32, 47, 32, 72, 84, 84, 80, 47, 49, 46, 49, 13, 10,
      88, 45, 72, 111, 115, 116, 58, 32>> \o EX_COM \o <<13, 10, 13, 10>>
XHostPacket == Packet("TCP", 80, HttpXHost)

\* blocked TCP packets with the largest sequence number and no
\* acknowledgment number, and with a carry out of the low half
SeqMaxPacket == [SniPacket EXCEPT !.seq = <<65535, 65535>>, !.ack = <<0, 0>>]
SeqCarryPacket == [HttpPacket EXCEPT !.seq = <<7, 65535>>]

AllTraffic ==
    Packets \cup HelloPackets
    \cup {HostOn443Packet, SniOn80Packet, NoSniPacket, NoHostPacket,
          NotQuicPacket, SeqMaxPacket, SeqCarryPacket, XHostPacket}

\* what the environment does to the packet's side effects: "log" makes the
\* block-event logging raise, "send" makes scapy's send raise, "sleep" makes
\* time.sleep raise
Faults == {"none", "log", "send", "sleep"}

NoPacket == Packet("NONE", 0, None)

(***************************************************************************)
(* Bounds of the model                                                     *)
(***************************************************************************)
\* packets delivered by the interception layer in one behaviour
MaxPackets == 1
\* requests the control plane receives in one behaviour
MaxRequests == 2
\* commands received in one behaviour of SpecCommands
MaxCommands == 1
\* lines the MCP server reads from stdin in one behaviour
MaxLines == 2

(***************************************************************************)
(* Data model                                                              *)
(***************************************************************************)
\* BlockMode values
Modes == {"drop", "rst", "mitm", "throttle"}

NoTime == << >>
NoRef == <<0, 0>>

\* DomainMetrics(), stored under its key; block_types is a defaultdict(int):
\* a count of 0 is an absent key
DomainMetrics(key) ==
    [domain |-> key, blocked |-> 0, passed |-> 0, last_blocked |-> NoTime,
     block_types |-> [SNI |-> 0, HTTP |-> 0, QUIC |-> 0]]

\* SimulatorStats() created at time t; domain_metrics is a dict, kept as the
\* sequence of its entries in insertion order
SimulatorStats(t) ==
    [total_packets |-> 0, blocked_sni |-> 0, blocked_http |-> 0,
     blocked_quic |-> 0, passed |-> 0, start_time |-> t,
     domain_metrics |-> << >>]

HasKey(dm, key) == \E i \in 1..Len(dm) : dm[i].domain = key
KeyIndex(dm, key) == CHOOSE i \in 1..Len(dm) : dm[i].domain = key

VARIABLES
    blocked_domains,  \* self.blocked_domains
    heap,             \* the SimulatorStats objects created so far
    stats,            \* self.stats: the index in heap of the current aggregate
    mode,             \* self.mode
    running,          \* self.running
    pc,               \* where the main (packet) thread is
    input,            \* the packet being processed
    loc,              \* process_packet's locals and the packet's effects
    apc,              \* where the API thread is
    req,              \* the request being handled
    snap,             \* to_dict's result under construction
    resp,             \* the response just sent, until the loop goes round
    npkts,            \* packets delivered so far
    nreqs,            \* requests received so far
    hist,             \* history of the run, read by the properties only
    mpc,              \* hyperv_mcp.py: where the MCP server process is
    pywin32,          \* whether `import win32file` succeeds in that process
    cur,              \* the stdin line being handled
    out,              \* the lines written to stdout for it
    raised,           \* whether handling it ended in main's except clause
    calls,            \* the commands sent to the daemon for it
    ft,               \* dpi_full_test's locals: before, start, after
    nlines            \* lines read so far

\* the state of the MCP stdio server
mcpVars == <<mpc, pywin32, cur, out, raised, calls, ft, nlines>>

vars == <<blocked_domains, heap, stats, mode, running, pc, input, loc,
          apc, req, snap, resp, npkts, nreqs, hist, mcpVars>>

\* datetime.now(): a clock that never runs backwards
Now == npkts + nreqs + 1

(***************************************************************************)
(* DPISimulator.process_packet, one shared-memory access per step.  A step *)
(* maps the simulator state s = [pc, heap, stats, mode, input, loc] to the *)
(* state after it; a step the environment can make fail also takes the     *)
(* fault the environment chose.                                            *)
(***************************************************************************)
\* locals of process_packet / _block_packet and what the packet caused:
\* the verdicts issued, the RST segments sent, the sends that failed, the
\* delays slept, the mode written to the block-event log, the dispatcher
\* branch taken and the step that raised
InitLoc ==
    [block_type |-> "", domain |-> None, metrics |-> NoRef, log_mode |-> "",
     verdicts |-> << >>, rst |-> << >>, rst_failed |-> 0, slept |-> 0,
     branch |-> "", raised |-> ""]

\* packet.accept() / packet.drop()
Verdict(s, v, next) ==
    [s EXCEPT !.loc.verdicts = Append(@, v), !.pc = next]

\* L551-L553: except Exception: packet.accept()
\* a fail-closed handler
pp_except_drop(s) == Verdict(s, "drop", "done")

pp_except(s) == Verdict(s, "accept", "done")

\* an exception raised at `where` propagates to process_packet's handler
Raise(s, where) == pp_except([s EXCEPT !.loc.raised = where])

\* a packet counted twice
pp_total_twice(s) ==
    [s EXCEPT !.heap[s.stats].total_packets = @ + 2, !.pc = "classify"]

\* L507: self.stats.total_packets += 1
pp_total(s) ==
    [s EXCEPT !.heap[s.stats].total_packets = @ + 1, !.pc = "classify"]

\* a classifier that applies both extractors to every TCP payload
classify_any_port(domains, pkt) ==
    IF pkt.proto = "TCP" THEN
        IF pkt.raw # None THEN
            LET sni == extract_sni(pkt.raw)
                host == extract_http_host(pkt.raw)
            IN  IF Truthy(sni) /\ is_domain_blocked(domains, sni)
                THEN <<"SNI", sni>>
                ELSE IF Truthy(host) /\ is_domain_blocked(domains, host)
                THEN <<"HTTP", host>>
                ELSE <<"", None>>
        ELSE <<"", None>>
    ELSE IF pkt.proto = "UDP" THEN
        IF pkt.dport = 443 /\ pkt.raw # None /\ is_quic_initial(pkt.raw)
        THEN <<"QUIC", None>>
        ELSE <<"", None>>
    ELSE <<"", None>>

\* L513-L545: which rule the packet matches: <<block_type, domain>>, or
\* <<"", None>> for a packet that passes
classify(domains, pkt) ==
    IF pkt.proto = "TCP" THEN
        IF pkt.raw # None THEN
            LET sni == IF pkt.dport = 443 THEN extract_sni(pkt.raw) ELSE None
                host == IF pkt.dport = 80
                        THEN extract_http_host(pkt.raw) ELSE None
            IN  IF pkt.dport = 443 /\ Truthy(sni)
                   /\ is_domain_blocked(domains, sni)
                THEN <<"SNI", sni>>
                ELSE IF pkt.dport = 80 /\ Truthy(host)
                        /\ is_domain_blocked(domains, host)
                THEN <<"HTTP", host>>
                ELSE <<"", None>>
        ELSE <<"", None>>
    ELSE IF pkt.proto = "UDP" THEN
        IF pkt.dport = 443 /\ pkt.raw # None /\ is_quic_initial(pkt.raw)
        THEN <<"QUIC", None>>
        ELSE <<"", None>>
    ELSE <<"", None>>

\* the same with self.blocked_domains as the blocklist
Classify(pkt) == classify(blocked_domains, pkt)

\* L510-L545: parse the packet and classify it
pp_classify(s) ==
    IF s.input.malformed THEN Raise(s, "parse")
    ELSE LET c == Classify(s.input)
         IN  IF c[1] = "" THEN [s EXCEPT !.pc = "passed"]
             ELSE [s EXCEPT !.loc.block_type = c[1], !.loc.domain = c[2],
                            !.pc = "count"]

\* L523 / L531 / L543: self.stats.blocked_<type> += 1
pp_count(s) ==
    LET h == s.heap[s.stats]
        h2 == CASE s.loc.block_type = "SNI" ->
                    [h EXCEPT !.blocked_sni = @ + 1]
                [] s.loc.block_type = "HTTP" ->
                    [h EXCEPT !.blocked_http = @ + 1]
                [] OTHER -> [h EXCEPT !.blocked_quic = @ + 1]
    IN  [s EXCEPT !.heap[s.stats] = h2, !.pc = "log"]

\* a pass-through that is not counted
pp_passed_uncounted(s) == Verdict(s, "accept", "done")

\* a pass-through that is also recorded per domain
pp_passed_per_domain(s) ==
    LET dm == s.heap[s.stats].domain_metrics
        e == [DomainMetrics(UNKNOWN) EXCEPT !.passed = 1]
        dm2 == IF HasKey(dm, UNKNOWN)
               THEN [dm EXCEPT ![KeyIndex(dm, UNKNOWN)].passed = @ + 1]
               ELSE Append(dm, e)
    IN  Verdict([s EXCEPT !.heap[s.stats].passed = @ + 1,
                          !.heap[s.stats].domain_metrics = dm2],
                "accept", "done")

\* L548-L549: self.stats.passed += 1; packet.accept()
pp_passed(s) ==
    Verdict([s EXCEPT !.heap[s.stats].passed = @ + 1], "accept", "done")

\* L476-L479 and _log_block_event (L305-L325): the log entry carries
\* self.mode as read now
bp_log(s, fault) ==
    IF fault = "log" THEN Raise(s, "log")
    ELSE [s EXCEPT !.loc.log_mode = s.mode, !.pc = "um_check"]

(***************************************************************************)
(* DPISimulator._update_domain_metrics(domain or 'unknown', blocked=True,  *)
(* block_type): every statement loads self.stats again                     *)
(***************************************************************************)
\* a key with no bucket for packets without a hostname
Key_as_given(l) == l.domain

\* L480: domain or 'unknown'
Key(l) == IF Truthy(l.domain) THEN l.domain ELSE UNKNOWN

\* L293: if domain not in self.stats.domain_metrics
um_check(s) ==
    IF HasKey(s.heap[s.stats].domain_metrics, Key(s.loc))
    THEN [s EXCEPT !.pc = "um_get"]
    ELSE [s EXCEPT !.pc = "um_create"]

\* L294: self.stats.domain_metrics[domain] = DomainMetrics()
um_create(s) ==
    LET dm == s.heap[s.stats].domain_metrics
        key == Key(s.loc)
        dm2 == IF HasKey(dm, key)
               THEN [dm EXCEPT ![KeyIndex(dm, key)] = DomainMetrics(key)]
               ELSE Append(dm, DomainMetrics(key))
    IN  [s EXCEPT !.heap[s.stats].domain_metrics = dm2, !.pc = "um_get"]

\* L296: metrics = self.stats.domain_metrics[domain]; a KeyError when the
\* current aggregate has no such entry
um_get(s) ==
    LET dm == s.heap[s.stats].domain_metrics
        key == Key(s.loc)
    IN  IF HasKey(dm, key)
        THEN [s EXCEPT !.loc.metrics = <<s.stats, KeyIndex(dm, key)>>,
                       !.pc = "um_blocked"]
        ELSE Raise(s, "metrics")

\* an update that creates the entry and records nothing in it
um_blocked_skipped(s) == [s EXCEPT !.pc = "um_last"]

\* L298: metrics.blocked += 1
um_blocked(s) ==
    LET m == s.loc.metrics
    IN  [s EXCEPT !.heap[m[1]].domain_metrics[m[2]].blocked = @ + 1,
                  !.pc = "um_last"]

\* an update that leaves last_blocked alone
um_last_skipped(s) == [s EXCEPT !.pc = "um_types"]

\* L299: metrics.last_blocked = datetime.now().isoformat()
um_last(s) ==
    LET m == s.loc.metrics
    IN  [s EXCEPT !.heap[m[1]].domain_metrics[m[2]].last_blocked = <<Now>>,
                  !.pc = "um_types"]

\* an update that leaves the block-type histogram alone
um_types_skipped(s) == [s EXCEPT !.pc = "d_drop"]

\* L300-L301: if block_type: metrics.block_types[block_type] += 1
um_types(s) ==
    LET m == s.loc.metrics
        e == s.heap[m[1]].domain_metrics[m[2]]
        bt == CASE s.loc.block_type = "SNI" ->
                    [e.block_types EXCEPT !.SNI = @ + 1]
                [] s.loc.block_type = "HTTP" ->
                    [e.block_types EXCEPT !.HTTP = @ + 1]
                [] OTHER -> [e.block_types EXCEPT !.QUIC = @ + 1]
    IN  [s EXCEPT !.heap[m[1]].domain_metrics[m[2]].block_types = bt,
                  !.pc = "d_drop"]

(***************************************************************************)
(* DPISimulator._block_packet: the if / elif chain reads self.mode once    *)
(* per comparison                                                          *)
(***************************************************************************)
\* n + 1 on Python's unbounded int, n given by its halves: 2^32 - 1 gives
\* 2^32, whose upper half no longer fits 16 bits
Plus1(n) ==
    IF n[2] < 65535 THEN <<n[1], n[2] + 1>> ELSE <<n[1] + 1, 0>>

\* a value scapy can pack into a 32-bit field (struct format '!I')
Fits32(n) == n[1] \in 0..65535 /\ n[2] \in 0..65535

\* the segment _send_rst builds (L455-L464)
RstSegment(pkt) ==
    [src |-> pkt.dst, dst |-> pkt.src, sport |-> pkt.dport,
     dport |-> pkt.sport,
     seq |-> IF pkt.ack # <<0, 0>> THEN pkt.ack ELSE <<0, 0>>,
     ack |-> Plus1(pkt.seq), flags |-> "RA"]

\* a Drop branch that resets the connection before dropping
bp_drop_rst(s) ==
    IF s.mode = "drop"
    THEN Verdict([s EXCEPT !.loc.branch = "drop",
                           !.loc.rst = Append(@, RstSegment(s.input))],
                 "drop", "done")
    ELSE [s EXCEPT !.pc = "d_rst"]

\* a Drop branch that waits before it drops
bp_drop_delayed(s) ==
    IF s.mode = "drop"
    THEN Verdict([s EXCEPT !.loc.branch = "drop", !.loc.slept = @ + 1],
                 "drop", "done")
    ELSE [s EXCEPT !.pc = "d_rst"]

\* L482-L484: if self.mode == BlockMode.DROP: packet.drop()
bp_drop(s) ==
    IF s.mode = "drop"
    THEN Verdict([s EXCEPT !.loc.branch = "drop"], "drop", "done")
    ELSE [s EXCEPT !.pc = "d_rst"]

\* L486: elif self.mode == BlockMode.RST
bp_rst(s) ==
    IF s.mode = "rst"
    THEN [s EXCEPT !.loc.branch = "rst", !.pc = "send_rst"]
    ELSE [s EXCEPT !.pc = "d_mitm"]

\* an RST injection whose send failure reaches process_packet's handler
send_rst_raises(s, fault) ==
    IF s.input.proto # "TCP" THEN [s EXCEPT !.pc = "rst_drop"]
    ELSE IF fault = "send" THEN Raise(s, "send")
    ELSE [s EXCEPT !.loc.rst = Append(@, RstSegment(s.input)),
                   !.pc = "rst_drop"]

\* an RST branch that drops without injecting anything
send_rst_skipped(s, fault) == [s EXCEPT !.pc = "rst_drop"]

\* L488 and _send_rst (L450-L468): a failing send is logged, not raised;
\* send() also fails, with struct.error, on a segment whose ack does not
\* fit its field
send_rst(s, fault) ==
    IF s.input.proto # "TCP" THEN [s EXCEPT !.pc = "rst_drop"]
    ELSE IF fault = "send" \/ ~Fits32(RstSegment(s.input).ack)
    THEN [s EXCEPT !.loc.rst_failed = @ + 1, !.pc = "rst_drop"]
    ELSE [s EXCEPT !.loc.rst = Append(@, RstSegment(s.input)),
                   !.pc = "rst_drop"]

\* L489: packet.drop()
rst_drop(s) == Verdict(s, "drop", "done")

\* a MITM branch that returns without a verdict
bp_mitm_no_verdict(s) ==
    IF s.mode = "mitm"
    THEN [s EXCEPT !.loc.branch = "mitm", !.pc = "done"]
    ELSE [s EXCEPT !.pc = "d_throttle"]

\* a MITM branch that lets the packet through
bp_mitm_accept(s) ==
    IF s.mode = "mitm"
    THEN Verdict([s EXCEPT !.loc.branch = "mitm"], "accept", "done")
    ELSE [s EXCEPT !.pc = "d_throttle"]

\* L491-L495: elif self.mode == BlockMode.MITM: (not implemented) drop
bp_mitm(s) ==
    IF s.mode = "mitm"
    THEN Verdict([s EXCEPT !.loc.branch = "mitm"], "drop", "done")
    ELSE [s EXCEPT !.pc = "d_throttle"]

\* a Throttle branch that accepts first and sleeps afterwards
bp_throttle_accept_first(s) ==
    IF s.mode = "throttle"
    THEN Verdict([s EXCEPT !.loc.branch = "throttle"], "accept", "sleep")
    ELSE Verdict([s EXCEPT !.loc.branch = "else"], "drop", "done")

\* L497 and L502-L503: elif self.mode == BlockMode.THROTTLE ... else: drop
bp_throttle(s) ==
    IF s.mode = "throttle"
    THEN [s EXCEPT !.loc.branch = "throttle", !.pc = "sleep"]
    ELSE Verdict([s EXCEPT !.loc.branch = "else"], "drop", "done")

\* a delay that a stop request cuts short, leaving the packet without verdict
apply_throttle_cancellable(s, fault) ==
    IF ~running THEN [s EXCEPT !.pc = "done"]
    ELSE IF fault = "sleep" THEN Raise(s, "sleep")
    ELSE [s EXCEPT !.loc.slept = @ + 1, !.pc = "t_accept"]

\* L499 and _apply_throttle (L470-L472): time.sleep(self.throttle_delay)
apply_throttle(s, fault) ==
    IF fault = "sleep" THEN Raise(s, "sleep")
    ELSE [s EXCEPT !.loc.slept = @ + 1, !.pc = "t_accept"]

\* L500: packet.accept()
throttle_accept(s) == Verdict(s, "accept", "done")

\* the steps of one process_packet call, by position
PacketSteps ==
    {"total", "count", "passed", "log", "um_check",
     "um_create", "um_get", "um_blocked", "um_last", "um_types", "d_drop",
     "d_rst", "send_rst", "rst_drop", "d_mitm", "d_throttle", "sleep",
     "t_accept"}

\* L507-L545: count the packet, parse and classify it (only the first
\* touches shared state)
pp_enter(s) == pp_classify(pp_total(s))

process_packet_step(s, fault) ==
    CASE s.pc = "total" -> pp_enter(s)
      [] s.pc = "count" -> pp_count(s)
      [] s.pc = "passed" -> pp_passed(s)
      [] s.pc = "log" -> bp_log(s, fault)
      [] s.pc = "um_check" -> um_check(s)
      [] s.pc = "um_create" -> um_create(s)
      [] s.pc = "um_get" -> um_get(s)
      [] s.pc = "um_blocked" -> um_blocked(s)
      [] s.pc = "um_last" -> um_last(s)
      [] s.pc = "um_types" -> um_types(s)
      [] s.pc = "d_drop" -> bp_drop(s)
      [] s.pc = "d_rst" -> bp_rst(s)
      [] s.pc = "send_rst" -> send_rst(s, fault)
      [] s.pc = "rst_drop" -> rst_drop(s)
      [] s.pc = "d_mitm" -> bp_mitm(s)
      [] s.pc = "d_throttle" -> bp_throttle(s)
      [] s.pc = "sleep" -> apply_throttle(s, fault)
      [] s.pc = "t_accept" -> throttle_accept(s)
      [] OTHER -> s

\* process_packet run from its first statement to its return with no other
\* thread taking a step in between
RECURSIVE RunToReturn(_, _)
RunToReturn(s, fault) ==
    IF s.pc \in PacketSteps
    THEN RunToReturn(process_packet_step(s, fault), fault)
    ELSE s

process_packet(s, pkt, fault) ==
    RunToReturn([s EXCEPT !.pc = "total", !.input = pkt, !.loc = InitLoc],
                fault)

(***************************************************************************)
(* The main thread: DPISimulator.run and the interception callback         *)
(***************************************************************************)
Sim ==
    [pc |-> pc, heap |-> heap, stats |-> stats, mode |-> mode,
     input |-> input, loc |-> loc]

apiVars == <<apc, req, snap, resp, nreqs>>

\* hist.clean: no packet has raised and no reset has happened so far;
\* hist.fresh: the current aggregate was installed by reset-stats and the
\* packet path has not written to it since;
\* hist.last_set: the mode of the last successful set-mode command ("" when
\* there was none); hist.mode_changed: a set-mode command succeeded while
\* the packet now being processed was in process_packet
InitHist ==
    [clean |-> TRUE, fresh |-> FALSE, last_set |-> "", mode_changed |-> FALSE]

\* the packet thread takes the step n from position at
Step(at, n) ==
    /\ pc = at
    /\ pc' = n.pc
    /\ heap' = n.heap
    /\ loc' = n.loc
    /\ UNCHANGED mcpVars
    /\ hist' = [hist EXCEPT
                  !.clean = @ /\ n.loc.raised = "",
                  !.fresh = @ /\ n.heap[stats] = heap[stats]]
    /\ UNCHANGED <<blocked_domains, stats, mode, running, input, npkts>>
    /\ UNCHANGED apiVars

\* run(), L600-L615: self.running = True; start the API thread; bind
Run ==
    /\ pc = "init"
    /\ running' = TRUE
    /\ apc' = "serve"
    /\ pc' = "loop"
    /\ UNCHANGED <<blocked_domains, heap, stats, mode, input, loc, req, snap,
                   resp, npkts, nreqs, hist, mcpVars>>

\* run() with api_port None (L608): no API thread is started
RunNoApi ==
    /\ pc = "init"
    /\ running' = TRUE
    /\ pc' = "loop"
    /\ UNCHANGED <<blocked_domains, heap, stats, mode, input, loc, apc, req,
                   snap, resp, npkts, nreqs, hist, mcpVars>>

\* a loop that goes on whatever self.running is
LoopForever ==
    /\ pc = "loop"
    /\ pc' = "nfq"
    /\ UNCHANGED <<blocked_domains, heap, stats, mode, running, input, loc,
                   npkts, hist, mcpVars>>
    /\ UNCHANGED apiVars

\* L618: while self.running: the loop goes on
LoopCheck ==
    /\ pc = "loop"
    /\ running
    /\ pc' = "nfq"
    /\ UNCHANGED <<blocked_domains, heap, stats, mode, running, input, loc,
                   npkts, hist, mcpVars>>
    /\ UNCHANGED apiVars

\* L618, L623-L632: the loop ends; finally: self.running = False; unbind;
\* print_stats
LoopExit ==
    /\ pc = "loop"
    /\ ~running
    /\ running' = FALSE
    /\ pc' = "exit"
    /\ UNCHANGED <<blocked_domains, heap, stats, mode, input, loc, npkts,
                   hist, mcpVars>>
    /\ UNCHANGED apiVars

\* L619: nfqueue.run(block=False) hands a queued packet, one of those in
\* offered, to process_packet
Deliver(offered) ==
    /\ pc = "nfq"
    /\ npkts < MaxPackets
    /\ \E pkt \in offered : input' = pkt
    /\ loc' = InitLoc
    /\ pc' = "total"
    /\ npkts' = npkts + 1
    /\ UNCHANGED mcpVars
    /\ hist' = [hist EXCEPT !.mode_changed = FALSE]
    /\ UNCHANGED <<blocked_domains, heap, stats, mode, running>>
    /\ UNCHANGED apiVars

\* L619-L620: the queue is empty: nfqueue.run returns; time.sleep(0.01)
NfqReturn ==
    /\ pc = "nfq"
    /\ pc' = "loop"
    /\ UNCHANGED <<blocked_domains, heap, stats, mode, running, input, loc,
                   npkts, hist, mcpVars>>
    /\ UNCHANGED apiVars

\* L621-L632: Ctrl+C during the loop's sleep, then the finally block
Interrupt ==
    /\ pc = "loop"
    /\ running' = FALSE
    /\ pc' = "exit"
    /\ UNCHANGED <<blocked_domains, heap, stats, mode, input, loc, npkts,
                   hist, mcpVars>>
    /\ UNCHANGED apiVars

PEnter == Step("total", pp_enter(Sim))
PCount == Step("count", pp_count(Sim))
PPassed == Step("passed", pp_passed(Sim))
PLog == \E fault \in {"none", "log"} : Step("log", bp_log(Sim, fault))
PUmCheck == Step("um_check", um_check(Sim))
PUmCreate == Step("um_create", um_create(Sim))
PUmGet == Step("um_get", um_get(Sim))
PUmBlocked == Step("um_blocked", um_blocked(Sim))
PUmLast == Step("um_last", um_last(Sim))
PUmTypes == Step("um_types", um_types(Sim))
PDrop == Step("d_drop", bp_drop(Sim))
PRst == Step("d_rst", bp_rst(Sim))
PSendRst ==
    \E fault \in {"none", "send"} : Step("send_rst", send_rst(Sim, fault))
PRstDrop == Step("rst_drop", rst_drop(Sim))
\* a MITM branch that, not being implemented, switches the simulator to Drop
PMitmFallsBack ==
    /\ pc = "d_mitm"
    /\ LET n == bp_mitm(Sim)
       IN  pc' = n.pc /\ heap' = n.heap /\ loc' = n.loc
    /\ mode' = IF mode = "mitm" THEN "drop" ELSE mode
    /\ UNCHANGED <<blocked_domains, stats, running, input, npkts, hist, mcpVars>>
    /\ UNCHANGED apiVars
PMitm == Step("d_mitm", bp_mitm(Sim))
PThrottle == Step("d_throttle", bp_throttle(Sim))
PSleep ==
    \E fault \in {"none", "sleep"} : Step("sleep", apply_throttle(Sim, fault))
PThrottleAccept == Step("t_accept", throttle_accept(Sim))

\* process_packet returns to nfqueue.run: the packet and its locals are gone
PReturn ==
    /\ pc = "done"
    /\ pc' = "nfq"
    /\ input' = NoPacket
    /\ loc' = InitLoc
    /\ UNCHANGED mcpVars
    /\ hist' = [hist EXCEPT !.mode_changed = FALSE]
    /\ UNCHANGED <<blocked_domains, heap, stats, mode, running, npkts>>
    /\ UNCHANGED apiVars

\* the steps a packet can take while the mode is Drop
PacketDrop ==
    \/ PEnter \/ PCount \/ PPassed \/ PLog
    \/ PUmCheck \/ PUmCreate \/ PUmGet \/ PUmBlocked \/ PUmLast \/ PUmTypes
    \/ PDrop \/ PReturn

PacketNext ==
    \/ PacketDrop
    \/ PRst \/ PSendRst \/ PRstDrop \/ PMitm \/ PThrottle
    \/ PSleep \/ PThrottleAccept

NfqDeliver == Deliver(Packets)

\* run()'s loop around the interception callback
RunLoop == Run \/ LoopCheck \/ LoopExit \/ NfqReturn \/ Interrupt

\* the loop when nobody sends a stop request: only Ctrl+C ends it
RunUntilInterrupt == Run \/ LoopCheck \/ NfqReturn \/ Interrupt

MainNext == RunLoop \/ NfqDeliver \/ PacketNext

(***************************************************************************)
(* The API thread: _start_api_server and APIHandler.  HTTPServer handles   *)
(* one request at a time.                                                  *)
(***************************************************************************)
mainVars == <<pc, input, loc, npkts>>

\* a request: the parsed JSON body's "mode" is "" when the key is missing or
\* empty; json_ok is false for a body json.loads rejects; body tells what
\* the bytes of the body are: a JSON object, text with a syntax error, bytes
\* that are not UTF-8, or JSON that is not an object
Request(method, path, json_ok, m) ==
    [method |-> method, path |-> path, json_ok |-> json_ok, mode |-> m,
     body |-> IF json_ok THEN "object" ELSE "syntax"]

Requests ==
    {Request("GET", p, TRUE, "") : p \in {"/status", "/stats", "/domains", "/nope"}}
    \cup {Request("POST", "/mode", TRUE, m) : m \in Modes \cup {"bogus", ""}}
    \cup {Request("POST", p, TRUE, "") : p \in {"/stop", "/reset-stats", "/nope"}}
    \cup {Request("POST", "/mode", FALSE, "")}

\* POST requests whose body makes the handler raise: bytes that
\* bytes.decode() rejects (L178), and a JSON array sent to /mode, on which
\* data.get does not exist (L191)
UnreadableRequests ==
    {[Request("POST", p, FALSE, "") EXCEPT !.body = "bytes"] :
        p \in {"/mode", "/stop"}}
    \cup {[Request("POST", "/mode", TRUE, "") EXCEPT !.body = "array"]}

NoRequest == Request("", "", TRUE, "")
NoResponse == [status |-> 0, kind |-> "none", body |-> << >>]

\* what to_dict has read so far: ref is its self, size the dict size the
\* items() iterator saw when created, i the entry it is at, entry the
\* values read from that entry
InitSnap ==
    [ref |-> 0, running |-> FALSE, mode |-> "", total_packets |-> 0,
     blocked_sni |-> 0, blocked_http |-> 0, blocked_quic |-> 0, passed |-> 0,
     start_time |-> 0, size |-> 0, i |-> 0, entry |-> DomainMetrics(None),
     domain_metrics |-> << >>]

\* the dict to_dict returns.  (A response body also carries ref, the
\* aggregate the values were read from; it is not sent, the properties
\* read it.)
StatsBody(sn) ==
    [total_packets |-> sn.total_packets, blocked_sni |-> sn.blocked_sni,
     blocked_http |-> sn.blocked_http, blocked_quic |-> sn.blocked_quic,
     passed |-> sn.passed, start_time |-> sn.start_time,
     domain_metrics |-> sn.domain_metrics]

\* the API thread moves from position at to position to
ApiStep(at, to) ==
    /\ apc = at
    /\ apc' = to
    /\ UNCHANGED <<blocked_domains, nreqs>>
    /\ UNCHANGED mainVars

\* a handler sends its response and returns to the serving loop
Respond(status, kind, body) ==
    /\ resp' = [status |-> status, kind |-> kind, body |-> body]
    /\ req' = NoRequest
    /\ snap' = InitSnap

\* L592: while self.running
ApiServe ==
    /\ ApiStep("serve", "recv")
    /\ running
    /\ resp' = NoResponse
    /\ UNCHANGED <<heap, stats, mode, running, req, snap, hist, mcpVars>>

\* L592, L595: the loop ends; server.server_close()
ApiClose ==
    /\ ApiStep("serve", "closed")
    /\ ~running
    /\ resp' = NoResponse
    /\ UNCHANGED <<heap, stats, mode, running, req, snap, hist, mcpVars>>

\* L593: server.handle_request() times out with no request
ApiTimeout ==
    /\ ApiStep("recv", "serve")
    /\ UNCHANGED <<heap, stats, mode, running, req, snap, resp, hist, mcpVars>>

\* L593: server.handle_request() reads a request, one of those in offered,
\* and calls its handler
Receive(offered, limit) ==
    /\ apc = "recv"
    /\ nreqs < limit
    /\ \E r \in offered :
         /\ req' = r
         /\ apc' = CASE r.method = "GET" /\ r.path = "/status" -> "st_running"
                     [] r.method = "GET" /\ r.path = "/stats" -> "td_total"
                     [] OTHER -> "handle"
    /\ nreqs' = nreqs + 1
    /\ snap' = InitSnap
    /\ resp' = NoResponse
    /\ UNCHANGED <<blocked_domains, heap, stats, mode, running, hist, mcpVars>>
    /\ UNCHANGED mainVars

\* do_GET /status, L155: 'running': self.simulator.running
GetStatusRunning ==
    /\ ApiStep("st_running", "st_mode")
    /\ snap' = [snap EXCEPT !.running = running]
    /\ UNCHANGED <<heap, stats, mode, running, req, resp, hist, mcpVars>>

\* do_GET /status, L156: 'mode': self.simulator.mode.value
GetStatusMode ==
    /\ ApiStep("st_mode", "td_total")
    /\ snap' = [snap EXCEPT !.mode = mode]
    /\ UNCHANGED <<heap, stats, mode, running, req, resp, hist, mcpVars>>

\* L157 / L162 and to_dict L86: self.simulator.stats is loaded once and
\* to_dict reads that object from here on
TdTotal ==
    /\ ApiStep("td_total", "td_sni")
    /\ snap' = [snap EXCEPT !.ref = stats,
                            !.total_packets = heap[stats].total_packets]
    /\ UNCHANGED <<heap, stats, mode, running, req, resp, hist, mcpVars>>

\* to_dict L87
TdSni ==
    /\ ApiStep("td_sni", "td_http")
    /\ snap' = [snap EXCEPT !.blocked_sni = heap[snap.ref].blocked_sni]
    /\ UNCHANGED <<heap, stats, mode, running, req, resp, hist, mcpVars>>

\* to_dict L88
TdHttp ==
    /\ ApiStep("td_http", "td_quic")
    /\ snap' = [snap EXCEPT !.blocked_http = heap[snap.ref].blocked_http]
    /\ UNCHANGED <<heap, stats, mode, running, req, resp, hist, mcpVars>>

\* to_dict L89
TdQuic ==
    /\ ApiStep("td_quic", "td_passed")
    /\ snap' = [snap EXCEPT !.blocked_quic = heap[snap.ref].blocked_quic]
    /\ UNCHANGED <<heap, stats, mode, running, req, resp, hist, mcpVars>>

\* to_dict L90-L92: passed, and start_time, which nothing writes
TdPassed ==
    /\ ApiStep("td_passed", "td_iter")
    /\ snap' = [snap EXCEPT !.passed = heap[snap.ref].passed,
                            !.start_time = heap[snap.ref].start_time]
    /\ UNCHANGED <<heap, stats, mode, running, req, resp, hist, mcpVars>>

\* to_dict L95: self.domain_metrics.items() creates the iterator
TdIter ==
    /\ ApiStep("td_iter", "td_next")
    /\ snap' = [snap EXCEPT !.size = Len(heap[snap.ref].domain_metrics),
                            !.i = 0]
    /\ UNCHANGED <<heap, stats, mode, running, req, resp, hist, mcpVars>>

\* to_dict L95: the iterator's next() finds the dict resized: RuntimeError,
\* the handler dies and no response is sent
TdResized ==
    /\ ApiStep("td_next", "serve")
    /\ Len(heap[snap.ref].domain_metrics) # snap.size
    /\ Respond(0, "crashed", << >>)
    /\ UNCHANGED <<heap, stats, mode, running, hist, mcpVars>>

\* to_dict L95: next() yields the next entry
TdNext ==
    /\ ApiStep("td_next", "td_e_blocked")
    /\ Len(heap[snap.ref].domain_metrics) = snap.size
    /\ snap.i < snap.size
    /\ snap' = [snap EXCEPT
                  !.i = @ + 1,
                  !.entry = DomainMetrics(
                              heap[snap.ref].domain_metrics[snap.i + 1].domain)]
    /\ UNCHANGED <<heap, stats, mode, running, req, resp, hist, mcpVars>>

\* to_dict L97-L98: metrics.blocked, and metrics.passed, which nothing writes
TdEntryBlocked ==
    /\ ApiStep("td_e_blocked", "td_e_last")
    /\ LET e == heap[snap.ref].domain_metrics[snap.i]
       IN  snap' = [snap EXCEPT !.entry.blocked = e.blocked,
                                !.entry.passed = e.passed]
    /\ UNCHANGED <<heap, stats, mode, running, req, resp, hist, mcpVars>>

\* to_dict L99
TdEntryLast ==
    /\ ApiStep("td_e_last", "td_e_types")
    /\ snap' = [snap EXCEPT !.entry.last_blocked =
                              heap[snap.ref].domain_metrics[snap.i].last_blocked]
    /\ UNCHANGED <<heap, stats, mode, running, req, resp, hist, mcpVars>>

\* to_dict L100: dict(metrics.block_types); the entry is stored in the result
TdEntryTypes ==
    /\ ApiStep("td_e_types", "td_next")
    /\ LET e == [snap.entry EXCEPT !.block_types =
                   heap[snap.ref].domain_metrics[snap.i].block_types]
       IN  snap' = [snap EXCEPT !.domain_metrics = Append(@, e),
                                !.entry = DomainMetrics(None)]
    /\ UNCHANGED <<heap, stats, mode, running, req, resp, hist, mcpVars>>

\* to_dict L102 returns; do_GET sends it (L162), for /status together with
\* running, mode and len(self.simulator.blocked_domains) (L154-L159)
TdReturn ==
    /\ ApiStep("td_next", "serve")
    /\ Len(heap[snap.ref].domain_metrics) = snap.size
    /\ snap.i = snap.size
    /\ IF req.path = "/status"
       THEN Respond(200, "status",
                    [running |-> snap.running, mode |-> snap.mode,
                     stats |-> StatsBody(snap), ref |-> snap.ref,
                     blocked_domains_count |-> Cardinality(blocked_domains)])
       ELSE Respond(200, "stats", [stats |-> StatsBody(snap), ref |-> snap.ref])
    /\ UNCHANGED <<heap, stats, mode, running, hist, mcpVars>>

\* do_GET /domains, L165-L170
GetDomains ==
    /\ ApiStep("handle", "serve")
    /\ req.method = "GET" /\ req.path = "/domains"
    /\ Respond(200, "domains",
               [domains |-> blocked_domains,
                count |-> Cardinality(blocked_domains)])
    /\ UNCHANGED <<heap, stats, mode, running, hist, mcpVars>>

\* do_GET, L173-L174
GetNotFound ==
    /\ ApiStep("handle", "serve")
    /\ req.method = "GET" /\ req.path \notin {"/status", "/stats", "/domains"}
    /\ Respond(404, "error", [error |-> "Not found"])
    /\ UNCHANGED <<heap, stats, mode, running, hist, mcpVars>>

\* do_POST, L181-L185: json.loads rejects the body
PostBadJson ==
    /\ ApiStep("handle", "serve")
    /\ req.method = "POST" /\ ~req.json_ok /\ req.body = "syntax"
    /\ Respond(400, "error", [error |-> "Invalid JSON"])
    /\ UNCHANGED <<heap, stats, mode, running, hist, mcpVars>>

\* do_POST, L178 / L191: UnicodeDecodeError from body.decode() or
\* AttributeError from data.get, neither caught by the handler: the server
\* loop logs the traceback and closes the connection with no response
PostRaises ==
    /\ ApiStep("handle", "serve")
    /\ req.method = "POST"
    /\ \/ req.body = "bytes"
       \/ req.body = "array" /\ req.path = "/mode"
    /\ Respond(0, "crashed", << >>)
    /\ UNCHANGED <<heap, stats, mode, running, hist, mcpVars>>

\* do_POST /mode, L192-L195: if not new_mode
PostModeMissing ==
    /\ ApiStep("handle", "serve")
    /\ req.method = "POST" /\ req.json_ok /\ req.path = "/mode"
    /\ req.mode = "" /\ req.body = "object"
    /\ Respond(400, "error", [error |-> "Mode not specified"])
    /\ UNCHANGED <<heap, stats, mode, running, hist, mcpVars>>

\* a set-mode that is acknowledged but not applied
set_mode_ignored(old, v) == old

\* the assignment of do_POST /mode, L198: self.simulator.mode = BlockMode(v)
set_mode(old, v) == v

\* do_POST /mode, L197-L203
PostMode ==
    /\ ApiStep("handle", "serve")
    /\ req.method = "POST" /\ req.json_ok /\ req.path = "/mode"
    /\ req.mode \in Modes
    /\ mode' = set_mode(mode, req.mode)
    /\ Respond(200, "mode", [success |-> TRUE, mode |-> mode'])
    /\ UNCHANGED mcpVars
    /\ hist' = [hist EXCEPT !.last_set = req.mode,
                            !.mode_changed = pc \in PacketSteps \cup {"done"}]
    /\ UNCHANGED <<heap, stats, running>>

\* an invalid value reported as an error while the mode falls back to rst
PostModeInvalidFallback ==
    /\ ApiStep("handle", "serve")
    /\ req.method = "POST" /\ req.json_ok /\ req.path = "/mode"
    /\ req.mode # "" /\ req.mode \notin Modes
    /\ mode' = "rst"
    /\ Respond(400, "error", [error |-> "Invalid mode", valid_modes |-> Modes])
    /\ UNCHANGED <<heap, stats, running, hist, mcpVars>>

\* do_POST /mode, L204-L208: BlockMode(new_mode) raises ValueError
PostModeInvalid ==
    /\ ApiStep("handle", "serve")
    /\ req.method = "POST" /\ req.json_ok /\ req.path = "/mode"
    /\ req.mode # "" /\ req.mode \notin Modes
    /\ Respond(400, "error", [error |-> "Invalid mode", valid_modes |-> Modes])
    /\ UNCHANGED <<heap, stats, mode, running, hist, mcpVars>>

\* do_POST /stop, L210-L213
PostStop ==
    /\ ApiStep("handle", "serve")
    /\ req.method = "POST" /\ req.json_ok /\ req.path = "/stop"
    /\ running' = FALSE
    /\ Respond(200, "stop", [success |-> TRUE])
    /\ UNCHANGED <<heap, stats, mode, hist, mcpVars>>

\* a reset that zeroes the current aggregate where it is
reset_in_place(h, st, t) ==
    [heap |-> [h EXCEPT ![st] = SimulatorStats(t)], stats |-> st]

\* a reset that keeps the per-domain map
reset_keeps_domains(h, st, t) ==
    [heap |-> Append(h, [SimulatorStats(t) EXCEPT
                           !.domain_metrics = h[st].domain_metrics]),
     stats |-> Len(h) + 1]

\* the heap and self.stats after L219: self.simulator.stats = SimulatorStats()
reset_stats(h, st, t) ==
    [heap |-> Append(h, SimulatorStats(t)), stats |-> Len(h) + 1]

\* do_POST /reset-stats, L217-L220
PostResetStats ==
    /\ ApiStep("handle", "serve")
    /\ req.method = "POST" /\ req.json_ok /\ req.path = "/reset-stats"
    /\ LET r == reset_stats(heap, stats, Now)
       IN  heap' = r.heap /\ stats' = r.stats
    /\ Respond(200, "reset", [success |-> TRUE])
    /\ UNCHANGED mcpVars
    /\ hist' = [hist EXCEPT !.clean = FALSE, !.fresh = TRUE]
    /\ UNCHANGED <<mode, running>>

\* do_POST, L224-L225
PostNotFound ==
    /\ ApiStep("handle", "serve")
    /\ req.method = "POST" /\ req.json_ok
    /\ req.path \notin {"/mode", "/stop", "/reset-stats"}
    /\ Respond(404, "error", [error |-> "Not found"])
    /\ UNCHANGED <<heap, stats, mode, running, hist, mcpVars>>

ApiReceive == Receive(Requests \cup UnreadableRequests, MaxRequests)

\* the serving loop
ApiLoop == ApiServe \/ ApiClose \/ ApiTimeout

\* SimulatorStats.to_dict as do_GET /stats runs it
ReadStats ==
    \/ TdTotal \/ TdSni \/ TdHttp \/ TdQuic \/ TdPassed \/ TdIter
    \/ TdResized \/ TdNext \/ TdEntryBlocked \/ TdEntryLast \/ TdEntryTypes
    \/ TdReturn

\* do_GET /status and /stats with to_dict
ApiSnapshot == GetStatusRunning \/ GetStatusMode \/ ReadStats

\* do_POST
ApiPost ==
    \/ PostBadJson \/ PostModeMissing \/ PostMode \/ PostModeInvalid
    \/ PostStop \/ PostResetStats \/ PostNotFound

ApiNext ==
    \/ ApiLoop \/ ApiReceive \/ ApiSnapshot \/ GetDomains \/ GetNotFound
    \/ ApiPost

(***************************************************************************)
(* tools/mcp-hyperv: the stdio MCP server (hyperv_mcp.py) and the commands *)
(* of the daemon it talks to (hyperv_daemon.py).  A reply of the daemon is *)
(* the record of the keys the server reads from it.                        *)
(***************************************************************************)
\* a key that the dict does not hold: d.get(key) is None
ABSENT == "absent"
Flag(b) == IF b THEN "true" ELSE "false"
\* `if d.get(key)`
Got(v) == v = "true"

Reply(success, blocked, error) ==
    [success |-> success, blocked |-> blocked, error |-> error]
NoReply == Reply(ABSENT, ABSENT, "")

\* an AttributeError leaving the call instead of a reply
Raises == Reply(ABSENT, ABSENT, "AttributeError")

\* hyperv_mcp.py L83-L124: the names in TOOLS
ToolNames ==
    {"hyperv_status", "hyperv_vm_list", "hyperv_vm_start", "hyperv_vm_stop",
     "hyperv_network_status", "vm_ssh_exec", "dpi_status", "dpi_stats",
     "dpi_reset_stats", "dpi_test_block", "powershell_exec", "winws_deploy",
     "winws_start", "winws_stop", "dpi_test_domain", "dpi_full_test"}

\* hyperv_daemon.py L60-L77: the keys of COMMANDS
COMMANDS == {"status", "vm_list", "network_status"}

\* hyperv_daemon.py L79-L174: the commands handle_command has a branch for
Implemented ==
    {"vm_start", "vm_stop", "ssh", "winws_deploy", "winws_start",
     "winws_stop", "dpi_test_domain", "powershell"} \cup COMMANDS

\* what curl prints for %{http_code}, and str.isdigit of it
HttpCodes == {"000", "", "200", "curl: (6)"}
IsDigit(c) == c \in {"000", "200"}

\* hyperv_daemon.py L158-L159
dpi_blocked(c) == c = "000" \/ c = "" \/ ~IsDigit(c)

\* a daemon whose winws_stop reports taskkill's exit status
handle_command_stop_may_fail(cmd) ==
    IF cmd \in Implemented
    THEN {Reply(Flag(ok), ABSENT, "") : ok \in BOOLEAN}
    ELSE {Reply(ABSENT, ABSENT, "Unknown command")}

\* hyperv_daemon.py handle_command, L79-L176: the replies a command can
\* get, over the outcomes of the processes it runs
handle_command(cmd) ==
    CASE cmd = "dpi_test_domain" ->
           {Reply("true", Flag(dpi_blocked(c)), "") : c \in HttpCodes}
      [] cmd = "winws_start" ->
           {Reply(Flag(ok), ABSENT, "") : ok \in BOOLEAN}
      [] cmd = "winws_stop" -> {Reply("true", ABSENT, "")}
      [] cmd \in Implemented
                   \ {"dpi_test_domain", "winws_start", "winws_stop"} ->
           {Reply(Flag(ok), ABSENT, "") : ok \in BOOLEAN}
      [] OTHER -> {Reply(ABSENT, ABSENT, "Unknown command")}

\* hyperv_mcp.py run_powershell_fallback, L54-L79: the dict at L56-L62 is
\* built with args.get(...), which raises when args is None
run_powershell_fallback(command, has_args) ==
    IF ~has_args THEN {Raises}
    ELSE IF command \notin {"status", "vm_list", "vm_start", "vm_stop",
                            "network_status"}
    THEN {Reply(ABSENT, ABSENT, "Unknown command")}
    ELSE {Reply(ABSENT, ABSENT, ""), Reply(ABSENT, ABSENT, "powershell")}

\* hyperv_mcp.py send_to_daemon, L23-L52: with pywin32 the daemon's reply
\* or a connection failure, without it the fallback
send_to_daemon(lib, command, has_args) ==
    IF lib
    THEN handle_command(command)
           \cup {Reply(ABSENT, ABSENT, "Daemon connection failed")}
    ELSE run_powershell_fallback(command, has_args)

\* a dispatcher that sends the DPI tools to the ssh command
DaemonCommand_dpi_over_ssh(name) ==
    CASE name = "hyperv_status" -> "status"
      [] name = "hyperv_vm_list" -> "vm_list"
      [] name = "hyperv_vm_start" -> "vm_start"
      [] name = "hyperv_vm_stop" -> "vm_stop"
      [] name = "hyperv_network_status" -> "network_status"
      [] name = "powershell_exec" -> "powershell"
      [] name \in {"winws_deploy", "winws_start", "winws_stop",
                   "dpi_test_domain"} -> name
      [] OTHER -> "ssh"

\* hyperv_mcp.py handle_tool_call, L128-L158: the daemon command of a tool
\* that is one call of send_to_daemon
DaemonCommand(name) ==
    CASE name = "hyperv_status" -> "status"
      [] name = "hyperv_vm_list" -> "vm_list"
      [] name = "hyperv_vm_start" -> "vm_start"
      [] name = "hyperv_vm_stop" -> "vm_stop"
      [] name = "hyperv_network_status" -> "network_status"
      [] name \in {"vm_ssh_exec", "dpi_test_block"} -> "ssh"
      [] name \in {"dpi_status", "dpi_stats", "dpi_reset_stats"} -> "dpi_api"
      [] name = "powershell_exec" -> "powershell"
      [] OTHER -> name

\* L129, L131, L137: send_to_daemon(command) with args left at None
PassesArgs(name) ==
    name \notin {"hyperv_status", "hyperv_vm_list", "hyperv_network_status"}

\* the lines a client writes: a blank line, a line that is not JSON, a JSON
\* array, and request objects
McpIds == {1, 2}
McpMethods ==
    {"initialize", "tools/list", "tools/call", "notifications/initialized",
     "ping"}
Line(json, method, id, name) ==
    [json |-> json, method |-> method, id |-> id, name |-> name]
NoLine == Line("", "", 0, "")
Lines ==
    {Line(j, "", 0, "") : j \in {"blank", "invalid", "array"}}
    \cup {Line("object", m, i, "") :
            m \in McpMethods \ {"tools/call"}, i \in McpIds}
    \cup {Line("object", "tools/call", i, n) :
            i \in McpIds, n \in ToolNames \cup {"no_such_tool"}}

\* a line of stdout: a JSON-RPC result or error
Result(id, what, body) ==
    [id |-> id, kind |-> "result", what |-> what, code |-> 0, body |-> body]
Error(id, code) ==
    [id |-> id, kind |-> "error", what |-> "", code |-> code,
     body |-> NoReply]

InitFt == [before |-> NoReply, start |-> NoReply, after |-> NoReply]

\* no MCP server process
McpOff ==
    /\ mpc = "off"
    /\ pywin32 = TRUE
    /\ cur = NoLine
    /\ out = << >>
    /\ raised = FALSE
    /\ calls = << >>
    /\ ft = InitFt
    /\ nlines = 0

simVars == <<blocked_domains, heap, stats, mode, running, pc, input, loc,
             apc, req, snap, resp, npkts, nreqs, hist>>

\* the process starts (L253-L254) on a host with or without pywin32
McpStart ==
    /\ mpc = "off"
    /\ mpc' = "read"
    /\ pywin32' \in BOOLEAN
    /\ UNCHANGED <<cur, out, raised, calls, ft, nlines, simVars>>

\* main, L238: the loop takes the next line
ReadLine(line) ==
    /\ mpc = "read"
    /\ nlines < MaxLines
    /\ nlines' = nlines + 1
    /\ cur' = line
    /\ ft' = InitFt
    /\ UNCHANGED <<pywin32, simVars>>

\* what main does with handle_request's result r, L244-L251
Answer(r) ==
    IF r = Raises THEN out' = << >> /\ raised' = TRUE
    ELSE out' = <<Result(cur'.id, "content", r)>> /\ raised' = FALSE

\* main, L239-L243 and L248-L251: a blank line is skipped, a JSONDecodeError
\* is swallowed, request.get on a list raises into `except Exception`
McpUnreadable ==
    \E line \in Lines :
       /\ line.json # "object"
       /\ ReadLine(line)
       /\ out' = << >>
       /\ raised' = (line.json = "array")
       /\ UNCHANGED <<mpc, calls>>

\* a request that handle_request answers without a tool, to `answer`
Answered(method, answer(_)) ==
    \E line \in Lines :
       /\ line.json = "object" /\ line.method = method
       /\ ReadLine(line)
       /\ out' = answer(line)
       /\ raised' = FALSE
       /\ UNCHANGED <<mpc, calls>>

\* handle_request, L198-L207
InitializeResult(line) == <<Result(line.id, "serverInfo", NoReply)>>
McpInitialize == Answered("initialize", InitializeResult)

\* handle_request, L209-L214
ToolsListResult(line) == <<Result(line.id, "tools", NoReply)>>
McpToolsList == Answered("tools/list", ToolsListResult)

\* handle_request, L227-L228: None, and main writes nothing
NoResult(line) == << >>
McpNotification == Answered("notifications/initialized", NoResult)

\* a server that answers every unknown method with an internal error
UnknownMethodInternal(line) == <<Error(line.id, -32603)>>

\* handle_request, L230-L234
UnknownMethod(line) == <<Error(line.id, -32601)>>
McpUnknownMethod == Answered("ping", UnknownMethod)

\* handle_request L216-L225 with handle_tool_call L128-L158 and L190: a
\* tool that is at most one daemon command
McpCall ==
    \E line \in Lines :
       /\ line.json = "object" /\ line.method = "tools/call"
       /\ line.name # "dpi_full_test"
       /\ ReadLine(line)
       /\ IF line.name \in ToolNames
          THEN /\ calls' = <<DaemonCommand(line.name)>>
               /\ \E r \in send_to_daemon(pywin32, DaemonCommand(line.name),
                                          PassesArgs(line.name)) : Answer(r)
          ELSE /\ calls' = << >>
               /\ Answer(Reply(ABSENT, ABSENT, "Unknown tool"))
       /\ UNCHANGED mpc

\* handle_tool_call, L159-L162: dpi_full_test begins
FtBegin ==
    \E line \in Lines :
       /\ line.json = "object" /\ line.method = "tools/call"
       /\ line.name = "dpi_full_test"
       /\ ReadLine(line)
       /\ mpc' = "ft_before"
       /\ out' = << >> /\ raised' = FALSE /\ calls' = << >>

\* a step of dpi_full_test that sends `command`; `then` says what its
\* reply r leads to
FtStep(at, command, then(_)) ==
    /\ mpc = at
    /\ calls' = Append(calls, command)
    /\ \E r \in send_to_daemon(pywin32, command, TRUE) : then(r)
    /\ UNCHANGED <<pywin32, cur, raised, nlines, simVars>>

\* the tool returns `body`: one result line
FtReturn(body) ==
    /\ out' = <<Result(cur.id, "content", body)>>
    /\ mpc' = "read"

\* L165-L167: 1. check that the domain is blocked
FtBeforeThen(r) ==
    IF Got(r.blocked)
    THEN mpc' = "ft_start" /\ ft' = [ft EXCEPT !.before = r]
                           /\ UNCHANGED out
    ELSE FtReturn(Reply(ABSENT, ABSENT, "not blocked"))
           /\ ft' = [ft EXCEPT !.before = r]
FtBefore == FtStep("ft_before", "dpi_test_domain", FtBeforeThen)

\* L170-L174: 2. start winws, then sleep
FtStartThen(r) ==
    IF Got(r.success)
    THEN mpc' = "ft_after" /\ ft' = [ft EXCEPT !.start = r]
                           /\ UNCHANGED out
    ELSE FtReturn(Reply(ABSENT, ABSENT, "Failed to start winws"))
           /\ ft' = [ft EXCEPT !.start = r]
FtStart == FtStep("ft_start", "winws_start", FtStartThen)

\* a tool that returns after the bypass check when the bypass failed
FtAfterReturnsOnFailure ==
    /\ mpc = "ft_after"
    /\ calls' = Append(calls, "dpi_test_domain")
    /\ \E r \in send_to_daemon(pywin32, "dpi_test_domain", TRUE) :
          /\ ft' = [ft EXCEPT !.after = r]
          /\ IF Got(r.blocked)
             THEN FtReturn(Reply("false", r.blocked, ""))
             ELSE mpc' = "ft_stop" /\ UNCHANGED out
    /\ UNCHANGED <<pywin32, cur, raised, nlines, simVars>>

\* L177: 3. check the bypass
FtAfterThen(r) ==
    mpc' = "ft_stop" /\ ft' = [ft EXCEPT !.after = r] /\ UNCHANGED out
FtAfter == FtStep("ft_after", "dpi_test_domain", FtAfterThen)

\* L180-L189: 4. stop winws, whatever its reply, and return
FtStopThen(r) ==
    FtReturn(Reply(Flag(~Got(ft.after.blocked)), ft.after.blocked, ""))
      /\ UNCHANGED ft
FtStop == FtStep("ft_stop", "winws_stop", FtStopThen)

\* main, L238: stdin is closed and the loop ends
McpEof ==
    /\ mpc = "read"
    /\ mpc' = "eof"
    /\ UNCHANGED <<pywin32, cur, out, raised, calls, ft, nlines, simVars>>

(***************************************************************************)
(* The system: the state after DPISimulator.__init__ (L231-L261) with the  *)
(* default mode, then the two threads interleaved                          *)
(***************************************************************************)
\* DPISimulator(domains_file, mode=m)
InitMode(m) ==
    /\ blocked_domains = load_domains(DomainsFile)
    /\ heap = <<SimulatorStats(0)>>
    /\ stats = 1
    /\ mode = m
    /\ running = FALSE
    /\ pc = "init"
    /\ input = NoPacket
    /\ loc = InitLoc
    /\ apc = "off"
    /\ req = NoRequest
    /\ snap = InitSnap
    /\ resp = NoResponse
    /\ npkts = 0
    /\ nreqs = 0
    /\ hist = InitHist
    /\ McpOff

\* the constructor's default: mode = BlockMode.DROP
Init == InitMode("drop")

Next == MainNext \/ ApiNext \/ PostRaises

Spec == Init /\ [][Next]_vars

(***************************************************************************)
(* The same system with the control plane's clients restricted.  The read  *)
(* handlers write nothing the packet path or the commands read, so what    *)
(* holds of the packet path under SpecCommands holds under Spec; set-mode  *)
(* and stop write nothing the snapshot reads.                              *)
(***************************************************************************)
\* clients that only send commands
PostRequests == {r \in Requests : r.method = "POST"}
ReceiveCommand == Receive(PostRequests, MaxCommands)
NextCommands == MainNext \/ ApiLoop \/ ReceiveCommand \/ ApiPost
SpecCommands == Init /\ [][NextCommands]_vars

\* a client that only switches between Drop and Mitm
SwitchRequests ==
    {r \in Requests :
       r.method = "POST" /\ r.json_ok /\ r.path = "/mode"
       /\ r.mode \in {"drop", "mitm"}}
ReceiveSwitch == Receive(SwitchRequests, MaxCommands)
NextSwitch ==
    \/ RunUntilInterrupt \/ NfqDeliver \/ PacketDrop \/ PRst \/ PMitm
    \/ ApiLoop \/ ReceiveSwitch \/ PostMode
SpecSwitch == Init /\ [][NextSwitch]_vars

\* no API port: the simulator started in any mode (--mode), fed every kind
\* of traffic
InitAnyMode == \E m \in Modes : InitMode(m)
DeliverAny == Deliver(AllTraffic)
NextPackets ==
    \/ RunNoApi \/ LoopCheck \/ NfqReturn \/ Interrupt
    \/ DeliverAny \/ PacketNext
SpecPackets == InitAnyMode /\ [][NextPackets]_vars

\* a client that only sends stop, and nobody presses Ctrl+C.  Each thread
\* keeps being scheduled while it has a step to take; nfqueue.run returns
\* when the queue is empty and handle_request returns after its timeout.
StopRequests ==
    {r \in Requests : r.method = "POST" /\ r.json_ok /\ r.path = "/stop"}
ReceiveStop == Receive(StopRequests, MaxCommands)
MainProgress == LoopCheck \/ LoopExit \/ NfqReturn \/ PacketDrop
ApiProgress == ApiLoop \/ PostStop
\* a blocked packet, packets that pass and one that cannot be parsed
StopTraffic ==
    {QuicPacket, DnsPacket, BarePacket, IcmpPacket, MalformedPacket}
DeliverStop == Deliver(StopTraffic)
NextStop ==
    \/ Run \/ MainProgress \/ DeliverStop
    \/ ApiProgress \/ ReceiveStop
SpecStop ==
    Init /\ [][NextStop]_vars /\ WF_vars(MainProgress) /\ WF_vars(ApiProgress)

\* clients that send every kind of request, while a blocked packet or a
\* packet that passes goes through the packet path
ControlTraffic == {QuicPacket, DnsPacket}
DeliverControl == Deliver(ControlTraffic)
ReceiveAny == Receive(Requests \cup UnreadableRequests, MaxCommands)
NextControl ==
    \/ RunLoop \/ DeliverControl \/ PacketNext
    \/ ApiLoop \/ ReceiveAny \/ ApiSnapshot \/ GetDomains \/ GetNotFound
    \/ ApiPost \/ PostRaises
SpecControl == Init /\ [][NextControl]_vars

\* clients that only read the stats and reset them; the mode stays Drop
ReadRequests ==
    {r \in Requests :
       \/ r.method = "GET" /\ r.path = "/stats"
       \/ r.method = "POST" /\ r.json_ok /\ r.path = "/reset-stats"}
ReceiveRead == Receive(ReadRequests, MaxRequests)
\* a blocked TCP packet, a blocked UDP packet (the 'unknown' bucket), a
\* packet that passes and one that cannot be parsed
ReadTraffic == {SniPacket, QuicPacket, OtherSniPacket, MalformedPacket}
DeliverRead == Deliver(ReadTraffic)
NextReads ==
    \/ RunUntilInterrupt \/ DeliverRead \/ PacketDrop
    \/ ApiLoop \/ ReceiveRead \/ ReadStats \/ PostResetStats
SpecReads == Init /\ [][NextReads]_vars

\* a client that only sends stop while the simulator, started in any mode,
\* processes traffic
NextInFlight ==
    \/ Run \/ LoopCheck \/ LoopExit \/ NfqReturn
    \/ DeliverRead \/ PacketNext
    \/ ApiLoop \/ ReceiveStop \/ PostStop
SpecInFlight == InitAnyMode /\ [][NextInFlight]_vars

\* the process from main(): DPISimulator(...) is being constructed, with
\* blocked_domains = set() (L242) and _load_domains (L247) still to run; the
\* domains file may be there or not
InitStartup ==
    \E m \in Modes :
       /\ blocked_domains = {}
       /\ heap = <<SimulatorStats(0)>>
       /\ stats = 1
       /\ mode = m
       /\ running = FALSE
       /\ pc = "load"
       /\ input = NoPacket
       /\ loc = InitLoc
       /\ apc = "off"
       /\ req = NoRequest
       /\ snap = InitSnap
       /\ resp = NoResponse
       /\ npkts = 0
       /\ nreqs = 0
       /\ hist = InitHist
       /\ McpOff

\* a load failure that is logged while the simulator starts with no domains
LoadFailsAndGoesOn ==
    /\ pc = "load"
    /\ pc' = "init"
    /\ UNCHANGED <<blocked_domains, heap, stats, mode, running, input, loc,
                   npkts, hist, mcpVars>>
    /\ UNCHANGED apiVars

\* _load_domains, L269-L276: the file is read; the constructor returns and
\* main() goes on to run()
LoadDomains ==
    /\ pc = "load"
    /\ blocked_domains' = load_domains(DomainsFile)
    /\ pc' = "init"
    /\ UNCHANGED <<heap, stats, mode, running, input, loc, npkts, hist, mcpVars>>
    /\ UNCHANGED apiVars

\* _load_domains, L265-L267: the file does not exist: sys.exit(1); or L269:
\* open() raises (a directory, no permission) and nothing up to main()
\* catches it.  Either way the process ends in the constructor.
LoadFails ==
    /\ pc = "load"
    /\ pc' = "failed"
    /\ UNCHANGED <<blocked_domains, heap, stats, mode, running, input, loc,
                   npkts, hist, mcpVars>>
    /\ UNCHANGED apiVars

NextStartup == LoadDomains \/ LoadFails \/ NextInFlight
SpecStartup == InitStartup /\ [][NextStartup]_vars

\* a client that switches among the four modes while the simulator, started
\* in any mode, processes traffic
ModeRequests ==
    {r \in Requests :
       r.method = "POST" /\ r.json_ok /\ r.path = "/mode" /\ r.mode \in Modes}
ReceiveMode == Receive(ModeRequests, MaxCommands)
NextDispatch ==
    \/ RunUntilInterrupt \/ DeliverRead \/ PacketNext
    \/ ApiLoop \/ ReceiveMode \/ PostMode
SpecDispatch == InitAnyMode /\ [][NextDispatch]_vars

(***************************************************************************)
(* Properties                                                              *)
(***************************************************************************)
\* the packet is classified as blocked / its processing has returned
Blocked == loc.block_type # ""
Returned == pc = "done"

\* C1: whenever no process_packet call is in progress, the current stats
\* aggregate satisfies total_packets == blocked_sni + blocked_http +
\* blocked_quic + passed
C1_CountersAddUp ==
    pc \notin PacketSteps =>
        LET a == heap[stats]
        IN  a.total_packets =
                a.blocked_sni + a.blocked_http + a.blocked_quic + a.passed

\* C2: a process_packet call never issues two verdicts and has issued
\* exactly one when it returns
C2_ExactlyOneVerdict ==
    /\ Len(loc.verdicts) <= 1
    /\ Returned => Len(loc.verdicts) = 1

\* a call that took the exception path under a mode other than the default
C2_Witness ==
    Returned /\ loc.raised = "sleep" /\ loc.verdicts = <<"accept">>

\* C3 as stated: whatever step fails, the RST send included, the verdict is
\* accept
C3_AnyFailureAccepts ==
    Returned /\ (loc.raised # "" \/ loc.rst_failed > 0)
        => loc.verdicts = <<"accept">>

\* C3: an exception that reaches process_packet's handler (parse, logging,
\* metrics update, throttle delay) ends in the verdict accept whatever the
\* mode; a failing RST send is absorbed by _send_rst and the packet is
\* dropped
C3_FailOpen ==
    Returned =>
        /\ loc.raised # "" => loc.verdicts = <<"accept">>
        /\ loc.rst_failed > 0 => loc.raised = "" /\ loc.verdicts = <<"drop">>

C3_Witness ==
    Returned /\ loc.raised = "log" /\ mode = "rst"
    /\ loc.verdicts = <<"accept">>

\* the sum of the blocked counts of the per-domain records of a snapshot
RECURSIVE RecordedBlocks(_)
RecordedBlocks(entries) ==
    IF entries = << >> THEN 0
    ELSE Head(entries).blocked + RecordedBlocks(Tail(entries))

\* C5: while no packet has raised and no reset has happened, a snapshot
\* returned by get stats shows each counted packet in a blocked_* counter or
\* in passed, and each blocked_* increment in a per-domain record
C5_SnapshotWhole ==
    resp.kind = "stats" /\ hist.clean =>
        LET b == resp.body.stats
        IN  /\ b.total_packets =
                 b.blocked_sni + b.blocked_http + b.blocked_quic + b.passed
            /\ b.blocked_sni + b.blocked_http + b.blocked_quic =
                 RecordedBlocks(b.domain_metrics)

\* the positions of the API thread inside to_dict, after it has loaded
\* self.simulator.stats
Reading ==
    apc \in {"td_sni", "td_http", "td_quic", "td_passed", "td_iter",
             "td_next", "td_e_blocked", "td_e_last", "td_e_types"}

\* the snapshot b holds values read from the aggregate a and no others
ReadFrom(b, a) ==
    /\ b.start_time = a.start_time
    /\ b.total_packets <= a.total_packets
    /\ b.blocked_sni <= a.blocked_sni
    /\ b.blocked_http <= a.blocked_http
    /\ b.blocked_quic <= a.blocked_quic
    /\ b.passed <= a.passed
    /\ Len(b.domain_metrics) <= Len(a.domain_metrics)
    /\ \A i \in 1..Len(b.domain_metrics) :
         /\ b.domain_metrics[i].domain = a.domain_metrics[i].domain
         /\ b.domain_metrics[i].blocked <= a.domain_metrics[i].blocked

\* the API thread is executing L219
ResetStep ==
    apc = "handle" /\ req.path = "/reset-stats" /\ req.json_ok /\ apc' = "serve"

\* C6: reset-stats makes self.stats refer to a new aggregate with all
\* counters zero and leaves every older aggregate as it was; no reset
\* happens during a snapshot read, and a returned snapshot holds values of
\* one aggregate only, the one that is current when it is sent
C6_ResetSwapsWhole ==
    /\ [][ResetStep =>
            /\ stats' = Len(heap) + 1
            /\ heap'[stats'] = SimulatorStats(heap'[stats'].start_time)
            /\ SubSeq(heap', 1, Len(heap)) = heap]_vars
    /\ [](Reading => snap.ref = stats)
    /\ [](resp.kind = "stats" =>
            /\ resp.body.ref = stats
            /\ ReadFrom(resp.body.stats, heap[stats]))

\* a snapshot of the new aggregate, returned after a reset that replaced an
\* aggregate with counted packets
C6_Witness ==
    /\ resp.kind = "stats" /\ resp.body.ref = 2 /\ stats = 2
    /\ heap[1].total_packets = 1 /\ heap[1].domain_metrics # << >>

\* C7: a stats read that follows a reset-stats with no write of the packet
\* path to the new aggregate in between returns all five counters zero and
\* an empty per-domain map
C7_ZeroAfterReset ==
    resp.kind = "stats" /\ hist.fresh =>
        LET b == resp.body.stats
        IN  /\ b.total_packets = 0 /\ b.blocked_sni = 0 /\ b.blocked_http = 0
            /\ b.blocked_quic = 0 /\ b.passed = 0
            /\ b.domain_metrics = << >>

C7_Witness ==
    /\ resp.kind = "stats" /\ hist.fresh
    /\ heap[1].blocked_sni = 1 /\ heap[1].domain_metrics # << >>
    /\ resp.body.stats.total_packets = 0

\* the packet was processed under the mode of the last set-mode command:
\* that command completed before the packet entered process_packet and no
\* other completed since
UnderSetMode(m) ==
    Returned /\ hist.last_set = m /\ ~hist.mode_changed

C8_NewModeApplies ==
    \A m \in Modes :
        UnderSetMode(m) /\ Blocked /\ loc.raised \notin {"log", "metrics"}
            => /\ loc.branch = m
               /\ loc.raised = "" =>
                    loc.verdicts =
                        IF m = "throttle" THEN <<"accept">> ELSE <<"drop">>

C8_Witness ==
    UnderSetMode("throttle") /\ loc.branch = "throttle" /\ loc.slept = 1
    /\ loc.verdicts = <<"accept">>

\* C9: in Drop mode a blocked packet that reaches the dispatcher is dropped,
\* with no RST injection, attempted or sent, and no delay
C9_DropOnly ==
    Returned /\ mode = "drop" /\ ~hist.mode_changed /\ Blocked
    /\ loc.raised = ""
        => /\ loc.branch = "drop"
           /\ loc.verdicts = <<"drop">>
           /\ loc.rst = << >> /\ loc.rst_failed = 0
           /\ loc.slept = 0

C9_Witness ==
    Returned /\ mode = "drop" /\ ~hist.mode_changed
    /\ loc.block_type = "HTTP" /\ loc.branch = "drop"
    /\ loc.verdicts = <<"drop">>

\* what the interception layer, the network and the stats see of one call
Observed(s) ==
    [verdicts |-> s.loc.verdicts, rst |-> s.loc.rst,
     rst_failed |-> s.loc.rst_failed, slept |-> s.loc.slept,
     raised |-> s.loc.raised, heap |-> s.heap, stats |-> s.stats]

CountedBlocked(a, b, t) ==
    /\ b.total_packets = a.total_packets + 1
    /\ b.passed = a.passed
    /\ b.blocked_sni = a.blocked_sni + (IF t = "SNI" THEN 1 ELSE 0)
    /\ b.blocked_http = a.blocked_http + (IF t = "HTTP" THEN 1 ELSE 0)
    /\ b.blocked_quic = a.blocked_quic + (IF t = "QUIC" THEN 1 ELSE 0)

\* process_packet run on pkt from the present state with the mode m and
\* nothing failing
RunIn(m, pkt) == process_packet([Sim EXCEPT !.mode = m], pkt, "none")

\* C11: in Throttle mode no verdict exists while the delay is pending, a
\* blocked packet that returns without raising has slept once and got the
\* single verdict accept, and from every idle state a blocked HTTP request
\* run in Throttle mode is accepted after one delay with blocked_http one
\* higher and passed unchanged
C11_ThrottleAcceptsAfterDelay ==
    /\ pc = "sleep" => loc.verdicts = << >> /\ loc.slept = 0
    /\ Returned /\ loc.branch = "throttle" /\ loc.raised = ""
         => loc.slept = 1 /\ loc.verdicts = <<"accept">>
    /\ pc = "nfq" =>
         LET r == RunIn("throttle", HttpPacket)
         IN  /\ r.loc.verdicts = <<"accept">>
             /\ r.loc.slept = 1 /\ r.loc.rst = << >>
             /\ CountedBlocked(heap[stats], r.heap[r.stats], "HTTP")

C11_Witness ==
    /\ Returned /\ mode = "throttle" /\ loc.block_type = "HTTP"
    /\ loc.slept = 1 /\ loc.verdicts = <<"accept">>
    /\ heap[stats].blocked_http = 1 /\ heap[stats].passed = 0

\* C12: a blocked packet whose RST send failed is dropped, never accepted,
\* and nothing was sent for it; from every idle state a blocked TCP packet
\* run in Rst mode with a failing send returns with the verdict drop, and a
\* packet processed after it gets the verdict and leaves the stats it would
\* have got and left had the send succeeded
C12_RstFailureStillDrops ==
    /\ Returned /\ loc.rst_failed > 0
         => loc.verdicts = <<"drop">> /\ loc.raised = "" /\ loc.rst = << >>
    /\ pc = "nfq" =>
         \A pkt \in {SniPacket, HttpPacket} :
            LET failed == process_packet([Sim EXCEPT !.mode = "rst"], pkt,
                                         "send")
                sent == RunIn("rst", pkt)
            IN  /\ failed.pc = "done"
                /\ failed.loc.verdicts = <<"drop">>
                /\ failed.loc.rst_failed = 1
                /\ failed.heap = sent.heap
                /\ \A later \in {HttpPacket, QuicPacket, AltPortPacket} :
                     LET a == process_packet(failed, later, "none")
                         b == process_packet(sent, later, "none")
                     IN  /\ Len(a.loc.verdicts) = 1
                         /\ a.loc.verdicts = b.loc.verdicts
                         /\ a.loc.rst = b.loc.rst
                         /\ a.heap = b.heap

C12_Witness ==
    /\ Returned /\ mode = "rst" /\ loc.block_type = "SNI"
    /\ loc.rst_failed = 1 /\ loc.verdicts = <<"drop">>

\* the API thread finishes handling a set-mode command whose value is not a
\* mode ("" stands for an empty or missing value)
SetModeRejected ==
    /\ apc = "handle" /\ apc' = "serve"
    /\ req.method = "POST" /\ req.json_ok /\ req.path = "/mode"
    /\ req.mode \notin Modes

\* the response r is an error that lists the valid modes
ListsValidModes(r) ==
    /\ r.status = 400 /\ r.kind = "error"
    /\ "valid_modes" \in DOMAIN r.body
    /\ r.body.valid_modes = Modes

\* C13 as stated: every rejected set-mode, the empty or missing value
\* included, answers with the list of valid modes and leaves the mode alone
C13_EveryRejectionListsModes ==
    [][SetModeRejected => mode' = mode /\ ListsValidModes(resp')]_vars

\* C13: a rejected set-mode leaves the mode unchanged and answers 400; a
\* value that is present but not a mode gets the list of valid modes, an
\* empty or missing value gets 'Mode not specified' without the list
C13_RejectedSetMode ==
    [][SetModeRejected =>
         /\ mode' = mode
         /\ resp'.status = 400 /\ resp'.kind = "error"
         /\ IF req.mode # "" THEN ListsValidModes(resp')
            ELSE /\ DOMAIN resp'.body = {"error"}
                 /\ resp'.body.error = "Mode not specified"]_vars

C13_Witness ==
    /\ resp.status = 400 /\ resp.kind = "error"
    /\ DOMAIN resp.body = {"error"}
    /\ resp.body.error = "Mode not specified"
    /\ mode = "drop"

\* C14: once stop has been answered running is false; once false after the
\* start it stays false; from then on the main loop reaches its exit and
\* the API loop closes; after the exit no packet is taken and the stats do
\* not change
C14_StopTerminates ==
    /\ [](resp.kind = "stop" => ~running)
    /\ [][~running /\ pc # "init" => ~running']_vars
    /\ (~running /\ pc # "init") ~> (pc = "exit" /\ apc = "closed")
    /\ [][pc = "exit" =>
            pc' = "exit" /\ npkts' = npkts /\ input' = input
            /\ heap' = heap]_vars

\* both loops have ended after a stop command and a processed packet
C14_Witness ==
    /\ pc = "exit" /\ apc = "closed" /\ ~running
    /\ nreqs = 1 /\ npkts = 1

\* the per-domain record of key in the aggregate a; a key never observed
\* has the record DomainMetrics() would create
Record(a, key) ==
    IF HasKey(a.domain_metrics, key)
    THEN a.domain_metrics[KeyIndex(a.domain_metrics, key)]
    ELSE DomainMetrics(key)

\* the aggregate b is a with one more blocked observation of type t
\* recorded under key, and every other record as it was
RecordedBlocked(a, b, key, t) ==
    /\ HasKey(b.domain_metrics, key)
    /\ Record(b, key).blocked = Record(a, key).blocked + 1
    /\ Record(b, key).passed = Record(a, key).passed
    /\ Record(b, key).block_types =
         [Record(a, key).block_types EXCEPT ![t] = @ + 1]
    /\ \A i \in 1..Len(a.domain_metrics) :
         a.domain_metrics[i].domain # key
            => b.domain_metrics[i] = a.domain_metrics[i]
    /\ Len(b.domain_metrics) =
         Len(a.domain_metrics)
           + (IF HasKey(a.domain_metrics, key) THEN 0 ELSE 1)

\* what the dispatcher does in mode m to a blocked packet when nothing fails
ModeVerdict(m) == IF m = "throttle" THEN <<"accept">> ELSE <<"drop">>

\* C15: from every idle state and in every mode, a TCP/443 packet whose SNI
\* is blocked raises blocked_sni and total_packets by one and nothing else
\* among the counters, adds one blocked observation of type SNI to the
\* record of the hostname as it was sent, and takes the branch of the mode;
\* the first such packet in Drop mode is dropped and leaves blocked_sni = 1
\* and the record's blocked count = 1
C15_BlockedSni ==
    /\ pc = "nfq" =>
         \A m \in Modes :
           \A c \in {<<SniPacket, EX_COM>>, <<SubSniPacket, SUB_EX_COM>>} :
             LET r == RunIn(m, c[1])
             IN  /\ r.loc.block_type = "SNI" /\ r.loc.domain = c[2]
                 /\ CountedBlocked(heap[stats], r.heap[r.stats], "SNI")
                 /\ RecordedBlocked(heap[stats], r.heap[r.stats], c[2], "SNI")
                 /\ r.loc.branch = m
                 /\ r.loc.verdicts = ModeVerdict(m)
    /\ Returned /\ npkts = 1 /\ mode = "drop" /\ input = SniPacket
       /\ loc.raised = ""
         => /\ loc.verdicts = <<"drop">>
            /\ heap[stats].blocked_sni = 1 /\ heap[stats].passed = 0
            /\ Record(heap[stats], EX_COM).blocked = 1

C15_Witness ==
    /\ Returned /\ npkts = 1 /\ mode = "drop" /\ input = SniPacket
    /\ loc.verdicts = <<"drop">>
    /\ heap[stats].blocked_sni = 1
    /\ Record(heap[stats], EX_COM).blocked = 1
    /\ Record(heap[stats], EX_COM).block_types.SNI = 1

\* packets that match no blocking rule: a blocked SNI on port 8443, UDP to
\* port 53, TCP without payload, a name that is not blocked, no name at
\* all, a blocked name on the other protocol's port, UDP/443 that is not a
\* QUIC Initial, and a packet that is neither TCP nor UDP
PassingTraffic ==
    {AltPortPacket, DnsPacket, BarePacket, OtherSniPacket, NoSniPacket,
     NoHostPacket, HostOn443Packet, SniOn80Packet, NotQuicPacket, IcmpPacket}

\* C16: from every idle state and in every mode, a packet that matches no
\* blocking rule gets the single verdict accept, raises passed and
\* total_packets by one and changes nothing else in the stats, with no RST
\* and no delay
C16_PassThrough ==
    /\ pc = "nfq" =>
         \A m \in Modes : \A pkt \in PassingTraffic :
            LET r == RunIn(m, pkt)
                a == heap[stats]
                b == r.heap[r.stats]
            IN  /\ r.loc.verdicts = <<"accept">>
                /\ r.loc.block_type = "" /\ r.loc.branch = ""
                /\ r.loc.rst = << >> /\ r.loc.slept = 0
                /\ b = [a EXCEPT !.passed = @ + 1, !.total_packets = @ + 1]
    /\ Returned /\ ~Blocked /\ loc.raised = ""
         => loc.verdicts = <<"accept">> /\ loc.rst = << >> /\ loc.slept = 0

C16_Witness ==
    /\ Returned /\ input = AltPortPacket /\ mode = "rst" /\ npkts = 1
    /\ loc.verdicts = <<"accept">> /\ heap[stats].passed = 1

\* C17: from every idle state and in every mode, a UDP/443 packet that the
\* QUIC-Initial detector accepts raises blocked_quic and total_packets by
\* one, adds one blocked observation of type QUIC to the record 'unknown',
\* carries no hostname and takes the branch of the mode; it is classified
\* the same whatever the blocklist holds
C17_BlockedQuic ==
    /\ pc = "nfq" =>
         \A m \in Modes :
            LET r == RunIn(m, QuicPacket)
            IN  /\ r.loc.block_type = "QUIC" /\ r.loc.domain = None
                /\ CountedBlocked(heap[stats], r.heap[r.stats], "QUIC")
                /\ RecordedBlocked(heap[stats], r.heap[r.stats], UNKNOWN,
                                   "QUIC")
                /\ r.loc.branch = m
                /\ r.loc.verdicts = ModeVerdict(m)
    /\ pc = "total" /\ input = QuicPacket =>
         \A domains \in {{}, blocked_domains, {UNKNOWN}, {EVILEX_COM}} :
            classify(domains, input) = <<"QUIC", None>>

C17_Witness ==
    /\ Returned /\ input = QuicPacket /\ mode = "mitm" /\ npkts = 1
    /\ loc.verdicts = <<"drop">>
    /\ heap[stats].blocked_quic = 1
    /\ Record(heap[stats], UNKNOWN).block_types.QUIC = 1

\* C18: from every idle state and in every mode, a TCP/80 request whose
\* Host value is blocked raises blocked_http and total_packets by one, adds
\* one blocked observation of type HTTP to the record of the host (without
\* its port) and takes the branch of the mode; a request with a blocked
\* Host sent to port 443 and a ClientHello with a blocked SNI sent to port
\* 80 match no rule
C18_BlockedHttp ==
    pc = "nfq" =>
      /\ \A m \in Modes :
            LET r == RunIn(m, HttpPacket)
            IN  /\ r.loc.block_type = "HTTP" /\ r.loc.domain = EX_COM
                /\ CountedBlocked(heap[stats], r.heap[r.stats], "HTTP")
                /\ RecordedBlocked(heap[stats], r.heap[r.stats], EX_COM,
                                   "HTTP")
                /\ r.loc.branch = m
                /\ r.loc.verdicts = ModeVerdict(m)
      /\ is_domain_blocked(blocked_domains,
                           extract_http_host(HostOn443Packet.raw))
      /\ is_domain_blocked(blocked_domains, extract_sni(SniOn80Packet.raw))
      /\ \A pkt \in {HostOn443Packet, SniOn80Packet} :
            /\ classify(blocked_domains, pkt) = <<"", None>>
            /\ RunIn(mode, pkt).loc.verdicts = <<"accept">>
            /\ RunIn(mode, pkt).loc.block_type = ""

C18_Witness ==
    /\ Returned /\ input = HttpPacket /\ mode = "rst" /\ npkts = 1
    /\ loc.block_type = "HTTP" /\ loc.domain = EX_COM
    /\ Len(loc.rst) = 1 /\ loc.verdicts = <<"drop">>
    /\ heap[stats].blocked_http = 1
    /\ Record(heap[stats], EX_COM).block_types.HTTP = 1

\* every letter-casing of a name
Casings(d) ==
    LET letters == {i \in 1..Len(d) : LowerChar(d[i]) \in 97..122}
    IN  { [i \in 1..Len(d) |->
             IF i \in up THEN LowerChar(d[i]) - 32 ELSE LowerChar(d[i])] :
          up \in SUBSET letters }

\* every order in which the entries of a blocklist can be visited
Orders(domains) ==
    {o \in [1..Cardinality(domains) -> domains] :
        \A i, j \in 1..Cardinality(domains) : i # j => o[i] # o[j]}

\* 'com' and the blocklists the names are tried against
COM_TLD == <<99, 111, 109>>
SampleBlocklists == SUBSET {EX_COM, COM_TLD, Lower(SUB_EX_COM)}

\* lower(d) is an entry, or some dot of lower(d) is followed by exactly an
\* entry
ListedOrUnder(domains, d) ==
    LET l == Lower(d)
    IN  \/ l \in domains
        \/ \E blocked \in domains : \E k \in 1..Len(l) :
              l[k] = 46 /\ SubSeq(l, k + 1, Len(l)) = blocked

\* the hostname of the ClientHello being processed
HelloName == extract_sni(input.raw)

\* C19: when a TCP/443 ClientHello carrying a name is processed, the name is
\* blocked exactly if its lower-cased form is a blocklist entry or ends with
\* a dot followed by one, for every sample blocklist, every letter-casing of
\* the name and every visiting order of the entries; 'Sub.Ex.com' is
\* blocked and 'evilex.com' is not under the blocklist 'ex.com'; and the
\* packet is blocked as SNI exactly in that case
C19_DomainBlocked ==
    /\ pc = "total" /\ input.proto = "TCP" /\ input.dport = 443
         /\ input.raw # None /\ Truthy(HelloName) =>
         /\ LET name == HelloName
                 casings == Casings(name)
             IN  \A domains \in SampleBlocklists \cup {blocked_domains} :
                    LET listed == ListedOrUnder(domains, name)
                    IN  /\ \A d \in casings :
                              is_domain_blocked(domains, d) = listed
                        /\ \A order \in Orders(domains) :
                              is_domain_blocked_visiting(order, name) = listed
         /\ is_domain_blocked({EX_COM}, SUB_EX_COM)
         /\ ~is_domain_blocked({EX_COM}, EVILEX_COM)
    /\ Returned /\ input.proto = "TCP" /\ input.dport = 443
         /\ input.raw # None /\ Truthy(HelloName) =>
         (loc.block_type = "SNI")
            = ListedOrUnder(blocked_domains, HelloName)

C19_Witness ==
    /\ Returned /\ input = SubSniPacket /\ npkts = 1
    /\ HelloName = SUB_EX_COM /\ HelloName # Lower(HelloName)
    /\ blocked_domains = {EX_COM}
    /\ loc.block_type = "SNI" /\ loc.verdicts = <<"drop">>

\* the samples whose payload is the one being processed
HelloInHand == {h \in HelloSamples : input.raw = h.payload}

\* C20: when a well-formed ClientHello with a server_name extension is
\* processed, _extract_sni returns exactly the hostname it encodes, with or
\* without a session id and other extensions around the server_name
\* extension; every prefix of the payload that ends before the last
\* hostname byte gives None; and a block of the packet names that hostname
C20_SniExtracted ==
    /\ pc = "total" =>
         \A h \in HelloInHand :
            /\ extract_sni(h.payload) = h.host
            /\ h.payload[h.name_end] = h.host[Len(h.host)]
            /\ \A n \in 0..(h.name_end - 1) :
                  extract_sni(SubSeq(h.payload, 1, n)) = None
    /\ Returned /\ input.proto = "TCP" /\ input.dport = 443 =>
         \A h \in HelloInHand :
            /\ loc.block_type \in {"", "SNI"}
            /\ loc.block_type = "SNI" => loc.domain = h.host

C20_Witness ==
    /\ Returned /\ input.proto = "TCP" /\ input.dport = 443 /\ npkts = 1
    /\ input.raw = ClientHelloWith(EX_COM, SESSION_ID, SUPPORTED_VERSIONS,
                                   << >>)
    /\ HelloInHand # {}
    /\ loc.block_type = "SNI" /\ loc.domain = EX_COM

\* version fields, and the payloads obtained from p by replacing its first
\* byte and its version field and cutting it at every length
VersionSamples ==
    {<<0, 0, 0, 0>>, <<0, 0, 0, 1>>, <<1, 0, 0, 0>>, <<0, 255, 0, 0>>,
     <<255, 255, 255, 255>>}
QuicVariants(p) ==
    { SubSeq(<<b>> \o v \o SubSeq(p, 6, Len(p)), 1, n) :
        b \in 0..255, v \in VersionSamples, n \in 0..Len(p) }

\* length at least 6, first byte 0xC0..0xCF (bits 0x80 and 0x40 set, bits
\* 0x30 clear), some byte of bytes 1..4 nonzero
IsInitial(p) ==
    /\ Len(p) >= 6
    /\ p[1] \in 192..207
    /\ \E i \in 2..5 : p[i] # 0

\* C21: when a UDP/443 payload is processed, _is_quic_initial is true of it,
\* and of every payload obtained from it by changing the first byte, the
\* version field and the length, exactly if the length is at least 6, the
\* first byte has 0x80 and 0x40 set and 0x30 clear, and bytes 1..4 are not
\* all zero; the result is always a boolean; and the packet is blocked as
\* QUIC exactly in that case
C21_QuicInitial ==
    /\ pc = "total" /\ input.proto = "UDP" /\ input.dport = 443
         /\ input.raw # None =>
         \A p \in QuicVariants(input.raw) \cup {input.raw} :
            /\ is_quic_initial(p) \in BOOLEAN
            /\ is_quic_initial(p) = IsInitial(p)
    /\ Returned /\ input.proto = "UDP" /\ input.dport = 443
         /\ input.raw # None =>
         (loc.block_type = "QUIC") = IsInitial(input.raw)

C21_Witness ==
    /\ Returned /\ input = NotQuicPacket /\ npkts = 1
    /\ Len(input.raw) >= 6 /\ ~IsInitial(input.raw)
    /\ loc.block_type = "" /\ loc.verdicts = <<"accept">>
    /\ heap[stats].blocked_quic = 0 /\ heap[stats].passed = 1

\* the counters of an aggregate
Counters ==
    {"total_packets", "blocked_sni", "blocked_http", "blocked_quic", "passed"}

\* C22: in every step, no counter of any aggregate created so far decreases
\* and no aggregate's start_time changes (a reset creates a new aggregate
\* and leaves the old ones as they are); the first statement of
\* process_packet raises total_packets of the current aggregate by exactly
\* one and every later step of the packet leaves total_packets of every
\* aggregate alone
C22_CountersMonotone ==
    [][ /\ Len(heap') >= Len(heap)
        /\ \A i \in 1..Len(heap) :
              /\ \A c \in Counters : heap'[i][c] >= heap[i][c]
              /\ heap'[i].start_time = heap[i].start_time
        /\ pc = "total" /\ pc' # "total" =>
              /\ stats' = stats
              /\ heap'[stats].total_packets = heap[stats].total_packets + 1
        /\ pc \in PacketSteps \ {"total"} /\ pc' # pc =>
              \A i \in 1..Len(heap) :
                 heap'[i].total_packets = heap[i].total_packets
      ]_vars

C22_Witness ==
    /\ Returned /\ npkts = 1 /\ stats = 2
    /\ heap[1].total_packets = 0 /\ heap[2].total_packets = 1
    /\ heap[2].blocked_sni + heap[2].blocked_http + heap[2].blocked_quic = 1
    /\ heap[2].start_time > heap[1].start_time

\* C23: the blocked-domain set is at every moment the set _load_domains
\* built from the file, no step of the packet path or of any request
\* handler changes it, every entry equals its own lower-cased form, and
\* GET /domains and GET /status report that set
C23_BlocklistFrozen ==
    /\ [](/\ blocked_domains = load_domains(DomainsFile)
          /\ \A d \in blocked_domains : d = Lower(d)
          /\ resp.kind = "domains" =>
                resp.body.domains = load_domains(DomainsFile)
          /\ resp.kind = "status" =>
                resp.body.blocked_domains_count
                  = Cardinality(load_domains(DomainsFile)))
    /\ [][blocked_domains' = blocked_domains]_vars

C23_Witness ==
    /\ npkts = 1 /\ pc \in PacketSteps \ {"total"}
    /\ resp.kind = "domains" /\ resp.body.domains = {EX_COM}
    /\ \E i \in 1..Len(DomainsFile) :
          Strip(DomainsFile[i]) # Lower(Strip(DomainsFile[i]))

\* C24: a packet is delayed at most once, and only if it is classified as
\* blocked and the dispatcher took the Throttle branch; the dispatcher takes
\* that branch only at a moment when self.mode is Throttle; a packet that
\* passes, and a blocked packet sent to the Drop, Rst or Mitm branch or to
\* the final else, is never delayed; and with no set-mode command during the
\* packet, nothing is delayed while the mode is not Throttle
C24_DelayOnlyInThrottle ==
    /\ [](/\ loc.slept \in {0, 1}
          /\ loc.slept = 1 => Blocked /\ loc.branch = "throttle"
          /\ ~Blocked => loc.slept = 0
          /\ loc.branch \in {"drop", "rst", "mitm", "else"} => loc.slept = 0
          /\ ~hist.mode_changed /\ mode # "throttle" => loc.slept = 0)
    /\ [][ /\ loc'.slept > loc.slept =>
                pc = "sleep" /\ loc.branch = "throttle"
           /\ loc'.branch = "throttle" /\ loc.branch # "throttle" =>
                mode = "throttle" /\ pc = "d_throttle" ]_vars

C24_Witness ==
    /\ Returned /\ Blocked /\ loc.slept = 1 /\ loc.branch = "throttle"
    /\ loc.verdicts = <<"accept">> /\ hist.last_set = "throttle"

\* the packet in hand is somewhere between process_packet's first statement
\* and its return
InFlight == pc \in PacketSteps \cup {"done"}

\* C25: once a packet is in process_packet, the main thread only moves
\* along that packet until it returns, whatever self.running is, and leaves
\* the loop only from the loop test; a packet that returns after a stop
\* arrived has exactly one verdict, with the reset sent if it took the Rst
\* branch (TCP, send not failing) and the delay slept if it took the
\* Throttle branch; and from every point of a packet reached with
\* self.running false, running on gives exactly one verdict, the reset and
\* the delay
C25_StopBetweenPackets ==
    /\ [](/\ Returned /\ ~running =>
                /\ Len(loc.verdicts) = 1
                /\ loc.branch = "throttle" /\ loc.raised = "" =>
                      loc.slept = 1 /\ loc.verdicts = <<"accept">>
                /\ loc.branch = "rst" =>
                      /\ loc.verdicts = <<"drop">>
                      /\ input.proto = "TCP" =>
                            Len(loc.rst) + loc.rst_failed = 1
          /\ pc \in PacketSteps /\ ~running =>
                LET r == RunToReturn(Sim, "none")
                IN  /\ r.pc = "done" /\ Len(r.loc.verdicts) = 1
                    /\ r.loc.branch = "throttle" => r.loc.slept = 1
                    /\ r.loc.branch = "rst" /\ input.proto = "TCP" =>
                          Len(r.loc.rst) + r.loc.rst_failed = 1)
    /\ [][ /\ pc \in PacketSteps /\ pc' # pc => pc' \in PacketSteps \cup {"done"}
           /\ pc = "done" /\ pc' # pc => pc' = "nfq"
           /\ pc' = "exit" /\ pc # "exit" => pc = "loop" /\ ~running
           /\ InFlight /\ running' # running => UNCHANGED <<pc, loc, input>>
         ]_vars

C25_Witness ==
    /\ pc = "t_accept" /\ ~running /\ resp.kind = "stop"
    /\ loc.branch = "throttle" /\ loc.slept = 1 /\ loc.verdicts = << >>

\* a command that cannot succeed: a POST whose body is not a JSON object, a
\* set-mode with an unknown or a missing mode, a path the method does not
\* serve
FailingCommand(r) ==
    \/ r.method = "POST" /\ r.body # "object"
    \/ r.method = "POST" /\ r.path = "/mode" /\ r.mode \notin Modes
    \/ r.method = "POST" /\ r.path \notin {"/mode", "/stop", "/reset-stats"}
    \/ r.method = "GET" /\ r.path \notin {"/status", "/stats", "/domains"}

\* C26: the handler of a failing command ends by sending an error response
\* (status 400 or 404 with an 'error' member), leaves mode, running, the
\* stats aggregate and the blocklist as they are, and returns to the serving
\* loop
C26_FailingCommandReports ==
    [][ apc = "handle" /\ apc' # "handle" /\ FailingCommand(req) =>
          /\ resp'.kind = "error" /\ resp'.status \in {400, 404}
          /\ "error" \in DOMAIN resp'.body
          /\ apc' = "serve"
          /\ UNCHANGED <<mode, running, stats, heap, blocked_domains>>
      ]_vars

\* C27: once the load of the domain list has failed, the process takes no
\* further step: no packet has been or is delivered, no verdict is issued,
\* self.running was never set and the API thread was never started; and
\* the loop, the packet path and the API thread run only with the loaded
\* blocklist
C27_LoadFailureIsFatal ==
    /\ [](/\ pc = "failed" =>
                /\ npkts = 0 /\ nreqs = 0 /\ apc = "off" /\ ~running
                /\ input = NoPacket /\ loc.verdicts = << >>
                /\ heap = <<SimulatorStats(0)>>
          /\ pc \in PacketSteps \cup {"done", "loop", "nfq"} \/ apc # "off" =>
                blocked_domains = load_domains(DomainsFile))
    /\ [][pc # "failed"]_vars

C27_Witness ==
    /\ pc = "failed" /\ blocked_domains = {} /\ apc = "off" /\ ~running
    /\ npkts = 0 /\ nreqs = 0

\* C28: self.mode is always one of the four BlockMode values, and the only
\* step that changes it is the handler of POST /mode with a valid mode, which
\* sets it to the mode requested and answers success; the steps of
\* process_packet, of stop, of reset-stats, of the read requests and of the
\* rejected commands leave it as it is
C28_ModeChangesBySetMode ==
    /\ [](mode \in Modes)
    /\ [][ mode' # mode =>
             /\ apc = "handle" /\ apc' = "serve"
             /\ req.method = "POST" /\ req.path = "/mode"
             /\ req.body = "object" /\ req.mode \in Modes
             /\ mode' = req.mode
             /\ resp'.kind = "mode" /\ resp'.status = 200
             /\ resp'.body.mode = req.mode
             /\ UNCHANGED <<pc, loc, input, heap, stats, running>>
         ]_vars

C28_Witness ==
    /\ mode = "rst" /\ hist.last_set = "rst" /\ resp.kind = "mode"
    /\ npkts = 1 /\ InFlight /\ hist.mode_changed

\* C29: with self.mode one of the four BlockMode values at every moment, no
\* packet is sent to the final else of the dispatcher, set-mode commands
\* running during the dispatch included
C29_DefaultNeverReached ==
    mode \in Modes => loc.branch # "else"

\* C30: when a blocked packet returns with no exception, the mode written
\* to its block-event log entry is the mode of the dispatcher branch applied
\* to it, a set-mode command completing during the packet included
C30_OneModePerPacket ==
    Returned /\ Blocked /\ loc.raised = "" => loc.log_mode = loc.branch

\* n + 1 as a 32-bit field: 2^32 - 1 is followed by 0
Succ32(n) ==
    IF n[2] < 65535 THEN <<n[1], n[2] + 1>>
    ELSE IF n[1] < 65535 THEN <<n[1] + 1, 0>>
    ELSE <<0, 0>>

\* the blocked TCP packets of the traffic
BlockedTcpTraffic ==
    {pkt \in AllTraffic :
        pkt.proto = "TCP" /\ ~pkt.malformed
        /\ classify(load_domains(DomainsFile), pkt)[1] # ""}

\* C31: from every idle state, a blocked TCP packet processed in Rst mode
\* with a working send has exactly one RST segment sent for it, from the
\* packet's destination address and port to its source address and port,
\* with seq the packet's ack, ack the packet's seq plus one modulo 2^32,
\* and the flags RST and ACK
C31_RstSegmentFields ==
    pc = "nfq" =>
      \A pkt \in BlockedTcpTraffic :
         RunIn("rst", pkt).loc.rst =
           << [src |-> pkt.dst, dst |-> pkt.src, sport |-> pkt.dport,
               dport |-> pkt.sport, seq |-> pkt.ack,
               ack |-> Succ32(pkt.seq), flags |-> "RA"] >>

\* p with its byte at position i (1-based) replaced by v
WithByte(p, i, v) == [p EXCEPT ![i] = v]

\* byte sequences made from p: every prefix, every single byte replaced by
\* 0, 1, 22 and 255 (so every declared length made zero, tiny and huge),
\* and prefixes with one byte replaced by 255
Garbled(p) ==
    {SubSeq(p, 1, n) : n \in 0..Len(p)}
    \cup {WithByte(p, i, v) : i \in 1..Len(p), v \in {0, 1, 22, 255}}
    \cup UNION { {WithByte(SubSeq(p, 1, n), i, 255) : i \in 1..n} :
                 n \in {k \in {43, 44, 45, 50, 60, Len(p) - 5, Len(p) - 1} :
                          k \in 1..Len(p)} }

\* text cut out of the buffer p: the ASCII bytes of some p[a+1..b], with at
\* most two bytes left out as not ASCII
CutFrom(p, r) ==
    \E a \in 0..(Len(p) - Len(r)) :
       \E b \in {a + Len(r), a + Len(r) + 1, a + Len(r) + 2} :
          b <= Len(p) /\ r = DecodeAsciiIgnore(SubSeq(p, a + 1, b))

\* C32: when the first TCP payload is processed, _extract_sni gives, for the payload
\* and for every byte sequence made from it by cutting it and by replacing
\* bytes, either None or text cut out of that byte sequence, reading no
\* byte outside it; and it gives None whenever byte 0 is not 0x16 or byte 5
\* is not 0x01
C32_SniExtractorTotal ==
    pc = "total" /\ npkts = 1 /\ input.proto = "TCP" /\ input.raw # None =>
      \A p \in Garbled(input.raw) :
         LET r == extract_sni(p)
         IN  /\ r = None \/ CutFrom(p, r)
             /\ Len(p) >= 1 /\ p[1] # 22 => r = None
             /\ Len(p) >= 6 /\ p[6] # 1 => r = None
             /\ Len(p) < 6 => r = None

C32_Witness ==
    /\ Returned /\ input = NoSniPacket /\ npkts = 1
    /\ input.raw[1] = 22 /\ input.raw[6] = 1
    /\ extract_sni(input.raw) = None
    /\ loc.block_type = "" /\ loc.verdicts = <<"accept">>

\* the positions where a header line starts: after a line feed
HeaderStarts(d) == {i \in 2..Len(d) : d[i - 1] = LF}

\* the header lines named Host, in any letter-casing
HostLines(d) ==
    {i \in HeaderStarts(d) :
        i + 4 <= Len(d) /\ Lower(SubSeq(d, i, i + 4)) = HOST_COLON}

\* the text of the line from position j to its end
RestOfLine(d, j) ==
    LET ends == {k \in j..Len(d) : d[k] \in {CR, LF}}
    IN  IF ends = {} THEN SubSeq(d, j, Len(d))
        ELSE SubSeq(d, j, (CHOOSE k \in ends : \A m \in ends : k <= m) - 1)

\* h without a trailing ':' followed by digits only
WithoutPort(h) ==
    LET cs == {i \in 1..Len(h) :
                 /\ h[i] = COLON /\ i < Len(h)
                 /\ \A k \in (i + 1)..Len(h) : h[k] \in 48..57}
    IN  IF cs = {} THEN h
        ELSE SubSeq(h, 1, (CHOOSE i \in cs : \A k \in cs : i <= k) - 1)

\* the value of the first Host header line of a request that starts with a
\* method token and a space, None when there is no such token or no such
\* line
HostHeader(p) ==
    IF \A m \in HTTP_METHODS : ~StartsWith(p, m) THEN None
    ELSE IF HostLines(p) = {} THEN None
    ELSE LET i == CHOOSE x \in HostLines(p) : \A y \in HostLines(p) : x <= y
         IN  WithoutPort(Strip(RestOfLine(p, i + 5)))

\* C33: when a TCP payload is processed, _extract_http_host gives None for
\* a payload that does not start with a method token and a space and for a
\* payload with no Host header line, and otherwise the value of the Host
\* header line without its ':port'
C33_HostHeaderValue ==
    pc = "total" /\ input.proto = "TCP" /\ input.raw # None =>
      extract_http_host(input.raw) = HostHeader(input.raw)

\* a client that only resets the stats while blocked packets and a packet
\* that passes go through the Drop path
ResetRequests ==
    {r \in Requests :
       r.method = "POST" /\ r.json_ok /\ r.path = "/reset-stats"}
ReceiveReset == Receive(ResetRequests, MaxRequests)
ResetTraffic == {SniPacket, QuicPacket, OtherSniPacket}
DeliverReset == Deliver(ResetTraffic)
NextResets ==
    \/ RunUntilInterrupt \/ DeliverReset \/ PacketDrop
    \/ ApiLoop \/ ReceiveReset \/ PostResetStats
SpecResets == Init /\ [][NextResets]_vars

\* every per-domain entry of every aggregate built so far, as
\* <<aggregate, key>>
Entries ==
    UNION {{<<a, heap[a].domain_metrics[i].domain>> :
              i \in 1..Len(heap[a].domain_metrics)} : a \in 1..Len(heap)}

\* the entry <<aggregate, key>>
EntryOf(x) == Record(heap[x[1]], x[2])

\* the packet thread is between the creation of the entry and its first
\* increment (L294 .. L298) for this key
FirstUpdateInFlight(key) ==
    pc \in {"um_get", "um_blocked"} /\ Key(loc) = key

\* an entry stays and the current aggregate changes on reset-stats only
EntriesKept ==
    /\ Entries \subseteq Entries'
    /\ stats' # stats =>
         apc = "handle" /\ req.method = "POST" /\ req.path = "/reset-stats"

RECURSIVE SumBlocked(_)
SumBlocked(dm) ==
    IF dm = << >> THEN 0 ELSE Head(dm).blocked + SumBlocked(Tail(dm))

\* the blocked_* counters of an aggregate, summed
BlockedTotal(a) == a.blocked_sni + a.blocked_http + a.blocked_quic

\* C35: whatever the interleaving of reset-stats with a packet, every
\* aggregate holds the total_packets increment of each blocked_* or passed
\* increment it holds, and the blocked_* increment of each per-domain
\* observation it holds
C35_UpdatesInOneAggregate ==
    \A a \in 1..Len(heap) :
       /\ heap[a].total_packets >= BlockedTotal(heap[a]) + heap[a].passed
       /\ BlockedTotal(heap[a]) >= SumBlocked(heap[a].domain_metrics)

\* the block_type histogram of an entry, summed
HistSum(e) == e.block_types.SNI + e.block_types.HTTP + e.block_types.QUIC

\* the histogram and last_blocked of the entry agree with its blocked count
EntryConsistent(e) ==
    /\ HistSum(e) = e.blocked
    /\ e.last_blocked # NoTime <=> e.blocked > 0

\* the per-domain blocked counts of the current aggregate add up to its
\* blocked_* counters
DomainsAddUp ==
    SumBlocked(heap[stats].domain_metrics) = BlockedTotal(heap[stats])

\* the packet thread is between L298 and L301 for the entry <<a, key>>
UpdateInFlight(x) ==
    /\ pc \in {"um_last", "um_types"}
    /\ loc.metrics[1] = x[1] /\ Key(loc) = x[2]

C37_DomainPassedZero ==
    \A x \in Entries : EntryOf(x).passed = 0

\* a packet with a hostname has been accepted and counted as passed, and
\* no per-domain entry counts it
C37_Witness ==
    /\ Returned /\ input = OtherSniPacket /\ loc.verdicts = <<"accept">>
    /\ heap[stats].passed >= 1
    /\ \A x \in Entries : EntryOf(x).passed = 0

(***************************************************************************)
(* The MCP stdio server alone: a client writes lines to its stdin          *)
(***************************************************************************)
NextMcp ==
    \/ McpStart \/ McpUnreadable \/ McpInitialize \/ McpToolsList
    \/ McpNotification \/ McpUnknownMethod \/ McpCall
    \/ FtBegin \/ FtBefore \/ FtStart \/ FtAfter \/ FtStop \/ McpEof
SpecMcp == Init /\ [][NextMcp]_vars

\* the order of dpi_full_test's daemon commands
FullTestOrder ==
    <<"dpi_test_domain", "winws_start", "dpi_test_domain", "winws_stop">>

\* dpi_full_test is the tool of the current line
InFullTest == cur.method = "tools/call" /\ cur.name = "dpi_full_test"

\* the tool call of the current line has returned
ToolReturned == mpc \in {"read", "eof"}

\* C38: the daemon commands of dpi_full_test are sent in the order
\* check-blocked, start winws, check-bypass, stop winws; winws_start is
\* sent only after the first check reported the domain blocked; and when
\* the start step succeeded the tool does not return before winws_stop has
\* been sent, whatever the second check reported
C38_FullTestOrder ==
    InFullTest =>
      /\ Len(calls) <= 4 /\ calls = SubSeq(FullTestOrder, 1, Len(calls))
      /\ Len(calls) >= 2 => Got(ft.before.blocked)
      /\ ToolReturned /\ Got(ft.start.success) =>
            calls = FullTestOrder /\ Len(out) = 1

\* the bypass check still reported the domain blocked, and winws_stop was
\* sent before the tool returned
C38_Witness ==
    /\ InFullTest /\ mpc = "read"
    /\ Got(ft.start.success) /\ Got(ft.after.blocked)
    /\ calls = FullTestOrder
    /\ out = <<Result(cur.id, "content", Reply("false", "true", ""))>>

\* C39: a call of a tool advertised in TOOLS, on a host where the daemon
\* is used, sends only commands that handle_command implements and is
\* never answered with the daemon's "Unknown command" error
C39_AdvertisedToolsImplemented ==
    cur.method = "tools/call" /\ cur.name \in ToolNames /\ pywin32 =>
      /\ \A i \in 1..Len(calls) : calls[i] \in Implemented
      /\ \A i \in 1..Len(out) : out[i].body.error # "Unknown command"

\* C40: once a line has been handled, a request object has got at most one
\* line of stdout, carrying its id: exactly one result for initialize,
\* tools/list and tools/call, nothing for notifications/initialized, exactly
\* one error with code -32601 for any other method; a line that is not
\* valid JSON has got nothing and the loop goes on
C40_OneAnswerPerRequest ==
    ToolReturned /\ nlines >= 1 =>
      /\ cur.json = "object" =>
           /\ Len(out) <= 1
           /\ \A i \in 1..Len(out) : out[i].id = cur.id
           /\ cur.method \in {"initialize", "tools/list", "tools/call"} =>
                Len(out) = 1 /\ out[1].kind = "result"
           /\ cur.method = "notifications/initialized" => out = << >>
           /\ cur.method \notin {"initialize", "tools/list", "tools/call",
                                 "notifications/initialized"} =>
                out = <<Error(cur.id, -32601)>>
      /\ cur.json = "invalid" => out = << >> /\ ~raised

=============================================================================
